---- MODULE Spec2Model ----
(***************************************************************************)
(* TinySTM, write-back / encounter-time-locking back end.                  *)
(*                                                                         *)
(* Every thread owns one transaction descriptor (stm_tx_t).  A step of the *)
(* model is one access to shared state (a lock word, an application word,  *)
(* the clock, the quiescence mutex) together with the thread-local         *)
(* computation around it; pc[t] is the position of thread t between two    *)
(* such accesses.  Atomic accesses are taken sequentially consistent.      *)
(***************************************************************************)
EXTENDS Integers, Sequences, FiniteSets, TLC

(***************************************************************************)
(* Bounds of the model.                                                    *)
(***************************************************************************)
NThreads == 2        \* threads, each registered with stm_init_thread
NAddr == 3           \* application words 0 .. NAddr-1
MaxOps == 3          \* loads, stores, aborts and nested begins thread 1 may issue
AdvOps == 2          \* loads, stores, aborts and nested begins another thread may issue
MaxTx == 1           \* top-level transactions one thread may begin
WORD_BITS == 2       \* width of an application word in the model
LOCK_WORD_BITS == 8  \* width of a lock word in the model
WSET_SLOTS == 4      \* write-set entries an allocation of a thread may hold
OverflowOps == 4     \* operations of thread 1 when it fills its write set
OverflowAdvOps == 3  \* operations of another thread next to it
OverflowTx == 2      \* top-level transactions of thread 1 when it fills its write set
LeakTx == 3          \* top-level transactions of thread 1 up to a roll-over after it has filled its write set
LiveTx == 4          \* top-level transactions of a thread that goes through the barrier and comes back to it
QuiesceOps == 2      \* calls of stm_quiesce by a thread
QuiesceTx == 1       \* top-level transactions of a thread that also calls stm_quiesce

\* Sizes that the program fixes when it is compiled, scaled down: the source
\* has RW_SET_SIZE 4096, LOCK_ARRAY_LOG_SIZE 20, LOCK_SHIFT_EXTRA 2 and
\* MAX_THREADS 8192.  With LOCK_WORD_BITS they make VERSION_MAX 2, so that
\* the clock reaches the roll-over.
RW_SET_SIZE == 2          \* initial size of the write set
LOCK_ARRAY_LOG_SIZE == 1  \* two lock words
LOCK_SHIFT_EXTRA == 1     \* two application words to a lock word
MAX_THREADS == 13

(***************************************************************************)
(* Program constants.                                                      *)
(***************************************************************************)
OWNED_BITS == 1
INCARNATION_BITS == 3

TX_IDLE == 0
TX_ACTIVE == 1
TX_COMMITTED == 2
TX_ABORTED == 4

NULL == 0

RECURSIVE Pow2(_)
Pow2(n) == IF n = 0 THEN 1 ELSE 2 * Pow2(n - 1)

Tx == 1 .. NThreads
Addr == 0 .. (NAddr - 1)
Word == 0 .. (Pow2(WORD_BITS) - 1)
FULL_MASK == Pow2(WORD_BITS) - 1

IS_ACTIVE(s) == (s % 2) = TX_ACTIVE

(***************************************************************************)
(* Bit operations on application words.                                    *)
(***************************************************************************)
RECURSIVE BitAndN(_, _, _)
BitAndN(a, b, n) ==
  IF n = 0 THEN 0
  ELSE ((a % 2) * (b % 2)) + 2 * BitAndN(a \div 2, b \div 2, n - 1)

BitAnd(a, b) == BitAndN(a, b, WORD_BITS)
BitNot(a) == FULL_MASK - a
BitOr(a, b) == a + b - BitAnd(a, b)

(***************************************************************************)
(* Lock words.                                                             *)
(***************************************************************************)
LOCK_BITS == OWNED_BITS + INCARNATION_BITS
LOCK_WORD_MAX == Pow2(LOCK_WORD_BITS) - 1
VERSION_MAX == (LOCK_WORD_MAX \div Pow2(LOCK_BITS)) - MAX_THREADS

LOCK_GET_OWNED(l) == l % Pow2(OWNED_BITS)
LOCK_GET_WRITE(l) == l % 2
LOCK_SET_ADDR_WRITE(a) == (a - (a % 2)) + 1
LOCK_GET_ADDR(l) == l - (l % Pow2(OWNED_BITS))
LOCK_GET_TIMESTAMP(l) == l \div Pow2(LOCK_BITS)
LOCK_SET_TIMESTAMP(t) == (t * Pow2(LOCK_BITS)) % Pow2(LOCK_WORD_BITS)
LOCK_GET_INCARNATION(l) == (l % Pow2(LOCK_BITS)) \div Pow2(OWNED_BITS)

LOCK_ARRAY_SIZE == Pow2(LOCK_ARRAY_LOG_SIZE)
LockIdx == 0 .. (LOCK_ARRAY_SIZE - 1)
LOCK_IDX(a) == (a \div Pow2(LOCK_SHIFT_EXTRA)) % LOCK_ARRAY_SIZE
GET_LOCK(a) == LOCK_IDX(a)

(***************************************************************************)
(* Write-set storage: the entries of thread t lie at EntriesBase(t),       *)
(* W_ENTRY_SIZE apart; a lock word that is owned holds such an address.    *)
(***************************************************************************)
W_ENTRY_SIZE == Pow2(LOCK_BITS)
EntriesBase(t) == W_ENTRY_SIZE * (1 + (t - 1) * WSET_SLOTS)
EntryPtr(t, i) == EntriesBase(t) + (i - 1) * W_ENTRY_SIZE
EntryIdx(t, p) == ((p - EntriesBase(t)) \div W_ENTRY_SIZE) + 1

VARIABLES
  locks,          \* _tinystm.locks
  mem,            \* the application words
  CLOCK,          \* the global clock
  quiesce,        \* _tinystm.quiesce
  threads_nb,     \* _tinystm.threads_nb
  quiesce_mutex,  \* holder of _tinystm.quiesce_mutex, 0 when free
  tx,             \* the descriptors
  pc,             \* position of each thread
  loc,            \* locals of the call a thread is in
  budget,         \* what a thread may still issue: [ops, txs]
  fp,             \* history: what the current attempt has seen and written
  done,           \* history: how the current attempt committed, [kind, ts]
  hist,           \* history: effect of the commit of each timestamp since the last roll-over
  base,           \* history: the application words at the last roll-over
  result          \* what the last call of stm_start or stm_commit of a thread returned

vars == <<locks, mem, CLOCK, quiesce, threads_nb, quiesce_mutex,
          tx, pc, loc, budget, fp, done, hist, base, result>>

NoAttr == [read_only |-> FALSE, no_retry |-> FALSE]

NoLoc == [addr |-> 0, value |-> 0, mask |-> 0, l |-> 0, version |-> 0,
          prev |-> NULL, i |-> 0, now |-> 0, t |-> 0, reason |-> {},
          ret |-> "none", ctx |-> "none", s |-> 0, block |-> 0]

\* History: a transaction's net effect on each word, [v, m]: the bits m take
\* the value they have in v.
NoEffect == [a \in Addr |-> [v |-> 0, m |-> 0]]
MaxTs == VERSION_MAX + NThreads
NotDone == [kind |-> "none", ts |-> 0]
NoLoad == [on |-> FALSE, addr |-> 0, value |-> 0]
NoWord == LOCK_WORD_MAX + 1
NoFp == [rd |-> NoEffect, wr |-> NoEffect, last |-> NoLoad,
         held |-> [k \in LockIdx |-> NoWord]]

\* What a call returned: stm_start the address of the jump buffer (val 1) or
\* NULL (val 0), stm_commit 1 or 0.
NoResult == [call |-> "none", val |-> 0]
Returned(t, call, val) == result' = [result EXCEPT ![t] = [call |-> call, val |-> val]]

\* int_stm_init_thread
InitTx == [attr |-> NoAttr, status |-> TX_IDLE, start |-> 0, end |-> 0,
           r_set |-> <<>>, w_set |-> <<>>, w_size |-> RW_SET_SIZE,
           nesting |-> 0]

Ops(t) == IF t = 1 THEN MaxOps ELSE AdvOps

\* stm_init, stm_quiesce_init, and one stm_init_thread per thread; b is what
\* the application is going to issue
Start(b) ==
  /\ locks = [k \in LockIdx |-> 0]
  /\ mem = [a \in Addr |-> 0]
  /\ CLOCK = 0
  /\ quiesce = 0
  /\ threads_nb = NThreads
  /\ quiesce_mutex = 0
  /\ tx = [t \in Tx |-> InitTx]
  /\ pc = [t \in Tx |-> "out"]
  /\ loc = [t \in Tx |-> NoLoc]
  /\ budget = b
  /\ fp = [t \in Tx |-> NoFp]
  /\ done = [t \in Tx |-> NotDone]
  /\ hist = [ts \in 1 .. MaxTs |-> NoEffect]
  /\ base = [a \in Addr |-> 0]
  /\ result = [t \in Tx |-> NoResult]

Init == Start([t \in Tx |-> [ops |-> Ops(t), txs |-> MaxTx]])

(***************************************************************************)
(* Inputs of the application.                                              *)
(***************************************************************************)
\* Thread 1 runs the transaction under study, the other threads the
\* transactions that interfere with it.
LoadAddrs(t) == IF t = 1 THEN {0, 2} ELSE {0}
StoreOps(t) ==
  IF t = 1
  THEN {[addr |-> 0, value |-> 1, mask |-> 0],
        [addr |-> 0, value |-> 1, mask |-> 1],
        [addr |-> 1, value |-> 1, mask |-> FULL_MASK],
        [addr |-> 2, value |-> 1, mask |-> FULL_MASK]}
  ELSE {[addr |-> 0, value |-> 2, mask |-> 2],
        [addr |-> 0, value |-> 2, mask |-> FULL_MASK],
        [addr |-> 2, value |-> 2, mask |-> FULL_MASK]}
Attrs(t) ==
  IF t = 1
  THEN {NoAttr, [NoAttr EXCEPT !.read_only = TRUE], [NoAttr EXCEPT !.no_retry = TRUE]}
  ELSE {NoAttr}
AbortReasons == {{}, {"NO_RETRY"}}

(***************************************************************************)
(* Helpers on the descriptor.                                              *)
(***************************************************************************)
NbEntries(t) == Len(tx[t].w_set)

\* tx->w_set.entries <= w && w < tx->w_set.entries + tx->w_set.nb_entries
InWriteSet(t, l) ==
  LET w == LOCK_GET_ADDR(l)
  IN  EntriesBase(t) <= w /\ w < EntriesBase(t) + NbEntries(t) * W_ENTRY_SIZE

\* The walk of a bucket from entry i for addr a: the entry that holds a,
\* or the last entry of the bucket.
RECURSIVE BucketWalk(_, _, _)
BucketWalk(t, i, a) ==
  LET w == tx[t].w_set[i]
  IN  IF w.addr = a THEN [found |-> TRUE, idx |-> i]
      ELSE IF w.next = NULL THEN [found |-> FALSE, idx |-> i]
      ELSE BucketWalk(t, EntryIdx(t, w.next), a)

stm_has_read(t, lock) == \E i \in 1 .. Len(tx[t].r_set) : tx[t].r_set[i].lock = lock

(***************************************************************************)
(* Control: leaving a call, entering stm_rollback.                         *)
(***************************************************************************)
Return(t) ==
  /\ pc' = [pc EXCEPT ![t] = "body"]
  /\ loc' = [loc EXCEPT ![t] = NoLoc]

CallRollback(t, lc, reason, ret) ==
  /\ pc' = [pc EXCEPT ![t] = "rollback"]
  /\ loc' = [loc EXCEPT ![t] = [lc EXCEPT !.reason = reason, !.ret = ret, !.i = 1]]

(***************************************************************************)
(* History: what a transaction has seen and done, with the meaning the     *)
(* operations have when the transaction runs alone.                        *)
(***************************************************************************)
\* Bit by bit: the bit of v where m is set, the bit of old elsewhere.
RECURSIVE SelectBits(_, _, _, _)
SelectBits(old, v, m, n) ==
  IF n = 0 THEN 0
  ELSE (IF m % 2 = 1 THEN v % 2 ELSE old % 2)
       + 2 * SelectBits(old \div 2, v \div 2, m \div 2, n - 1)

Stored(old, v, m) == SelectBits(old, v, m, WORD_BITS)

\* x and y have the same bits under m.
Agree(x, y, m) == Stored(0, x, m) = Stored(0, y, m)

\* The bits of a word that thread t has neither written nor seen yet.
NewBits(t, a) == Stored(Stored(FULL_MASK, 0, fp[t].wr[a].m), 0, fp[t].rd[a].m)

\* A load of a returned value: the bits that come from outside the
\* transaction are recorded the first time they are seen.
LogLoad(t, a, value) ==
  fp' = [fp EXCEPT ![t].rd[a] = [v |-> Stored(@.v, value, NewBits(t, a)),
                                 m |-> Stored(@.m, FULL_MASK, NewBits(t, a))],
                   ![t].last = [on |-> TRUE, addr |-> a, value |-> value]]

\* A store of the bits mask of value to a returned.
LogStore(t, a, value, mask) ==
  fp' = [fp EXCEPT ![t].wr[a] = [v |-> Stored(@.v, value, mask),
                                 m |-> Stored(@.m, FULL_MASK, mask)],
                   ![t].last = NoLoad]

ApplyEffect(m, e) == [a \in Addr |-> Stored(m[a], e[a].v, e[a].m)]

\* The application words after the commits of timestamps 1 .. c, in that order.
RECURSIVE SnapAt(_)
SnapAt(c) == IF c = 0 THEN base ELSE ApplyEffect(SnapAt(c - 1), hist[c])

\* The transaction is certain to commit with timestamp ts.
Committed(t, ts) ==
  /\ hist' = [hist EXCEPT ![ts] = fp[t].wr]
  /\ done' = [done EXCEPT ![t] = [kind |-> "upd", ts |-> ts]]

(***************************************************************************)
(* stm_inc_clock, int_stm_start and int_stm_prepare.                       *)
(***************************************************************************)
\* A read of the clock that runs ahead of it.
GET_CLOCK_ahead == CLOCK + 1

\* GET_CLOCK: ATOMIC_LOAD_ACQ(&CLOCK)
GET_CLOCK == CLOCK

stm_start(t, attr) ==
  /\ pc[t] \in {"out", "body"}
  /\ IF tx[t].nesting > 0
     THEN /\ budget[t].ops > 0
          /\ budget' = [budget EXCEPT ![t].ops = @ - 1]
          /\ tx' = [tx EXCEPT ![t].nesting = @ + 1]
          /\ Returned(t, "stm_start", NULL)
          /\ UNCHANGED pc
     ELSE /\ budget[t].txs > 0
          /\ budget' = [budget EXCEPT ![t].txs = @ - 1]
          /\ tx' = [tx EXCEPT ![t].nesting = 1, ![t].attr = attr]
          /\ Returned(t, "stm_start", 1)
          /\ pc' = [pc EXCEPT ![t] = "prepare"]
  /\ UNCHANGED <<locks, mem, CLOCK, quiesce, threads_nb, quiesce_mutex,
                 loc, fp, done, hist, base>>

\* A begin that never rolls the clock over.
ClockNeverRollsOver(now) == FALSE

\* A begin that rolls the clock over only when the version field is full.
ClockNeedsRolloverWhenFull(now) == now >= VERSION_MAX + MAX_THREADS

\* if (unlikely(tx->start >= VERSION_MAX))
ClockNeedsRollover(now) == now >= VERSION_MAX

\* LONGJMP(tx->env, reason | STM_PATH_INSTRUMENTED) when int_stm_prepare was
\* called by stm_rollback; the plain return to stm_start otherwise.
LongJmp(t) ==
  IF loc[t].ret # "none"
  THEN Returned(t, "sigsetjmp", loc[t].reason \cup {"PATH_INSTRUMENTED"})
  ELSE UNCHANGED result

int_stm_prepare(t) ==
  /\ pc[t] = "prepare"
  /\ LET now == GET_CLOCK
     IN  IF ClockNeedsRollover(now)
         THEN /\ tx' = [tx EXCEPT ![t].w_set = <<>>, ![t].r_set = <<>>,
                                  ![t].start = now, ![t].end = now]
              /\ pc' = [pc EXCEPT ![t] = "barrier"]
              /\ UNCHANGED <<loc, result>>
         ELSE /\ tx' = [tx EXCEPT ![t].w_set = <<>>, ![t].r_set = <<>>,
                                  ![t].start = now, ![t].end = now,
                                  ![t].status = TX_ACTIVE]
              /\ IF quiesce = 2
                 THEN /\ pc' = [pc EXCEPT ![t] = "check_quiesce"]
                      /\ UNCHANGED <<loc, result>>
                 ELSE /\ pc' = [pc EXCEPT ![t] = "body"]
                      /\ loc' = [loc EXCEPT ![t] = NoLoc]
                      /\ LongJmp(t)
  /\ fp' = [fp EXCEPT ![t] = NoFp]
  /\ done' = [done EXCEPT ![t] = NotDone]
  /\ UNCHANGED <<locks, mem, CLOCK, quiesce, threads_nb, quiesce_mutex,
                 budget, hist, base>>

\* stm_check_quiesce, called at the end of int_stm_prepare once the status is
\* Active.  The store of the status and the later load of the flag are two
\* steps whenever the flag is 2 at the store, so that a scanning stm_quiesce
\* can see the thread Active in between; when the flag is not 2 at the store
\* the load is taken in the same step (a later store of 2 by stm_quiesce reads
\* nothing of this thread and commutes with it).
stm_check_quiesce(t) ==
  /\ pc[t] = "check_quiesce"
  /\ IF quiesce = 2
     THEN /\ loc' = [loc EXCEPT ![t].s = tx[t].status]
          /\ tx' = [tx EXCEPT ![t].status = TX_IDLE]
          /\ pc' = [pc EXCEPT ![t] = "quiesce_spin"]
          /\ UNCHANGED result
     ELSE /\ pc' = [pc EXCEPT ![t] = "body"]
          /\ loc' = [loc EXCEPT ![t] = NoLoc]
          /\ LongJmp(t)
          /\ UNCHANGED tx
  /\ UNCHANGED <<locks, mem, CLOCK, quiesce, threads_nb, quiesce_mutex,
                 budget, fp, done, hist, base>>

\* The load of the flag that ends `while (quiesce == 2)` in stm_check_quiesce.
quiesce_spin(t) ==
  /\ pc[t] = "quiesce_spin"
  /\ quiesce # 2
  /\ pc' = [pc EXCEPT ![t] = "quiesce_restore"]
  /\ UNCHANGED <<locks, mem, CLOCK, quiesce, threads_nb, quiesce_mutex, tx,
                 loc, budget, fp, done, hist, base, result>>

\* SET_STATUS(tx->status, GET_STATUS(s)), the return of stm_check_quiesce and
\* of int_stm_prepare.
quiesce_restore(t) ==
  /\ pc[t] = "quiesce_restore"
  /\ tx' = [tx EXCEPT ![t].status = loc[t].s]
  /\ loc' = [loc EXCEPT ![t] = NoLoc]
  /\ pc' = [pc EXCEPT ![t] = "body"]
  /\ LongJmp(t)
  /\ UNCHANGED <<locks, mem, CLOCK, quiesce, threads_nb, quiesce_mutex,
                 budget, fp, done, hist, base>>

\* stm_quiesce(tx, block) up to the scan of the thread list: an Active caller
\* uses trylock and returns 1 when the mutex is taken, any other caller waits
\* for the mutex; with block set the flag becomes 2.
stm_quiesce(t, block) ==
  /\ pc[t] \in {"out", "body"}
  /\ budget[t].ops > 0
  /\ budget' = [budget EXCEPT ![t].ops = @ - 1]
  /\ IF quiesce_mutex # 0
     THEN /\ IS_ACTIVE(tx[t].status)
          /\ Returned(t, "stm_quiesce", 1)
          /\ UNCHANGED <<quiesce_mutex, quiesce, pc, loc>>
     ELSE /\ quiesce_mutex' = t
          /\ quiesce' = IF block = 1 THEN 2 ELSE quiesce
          /\ loc' = [loc EXCEPT ![t].ret = pc[t], ![t].i = 1, ![t].block = block]
          /\ pc' = [pc EXCEPT ![t] = "quiesce_scan"]
          /\ UNCHANGED result
  /\ UNCHANGED <<locks, mem, CLOCK, threads_nb, tx, fp, done, hist, base>>

\* The scan of stm_quiesce: one registered thread after the other, waiting
\* while the scanned thread is Active; then the unlock when block is clear
\* and the return of 0.
quiesce_scan(t) ==
  /\ pc[t] = "quiesce_scan"
  /\ LET u == loc[t].i
     IN  IF u > NThreads
         THEN /\ quiesce_mutex' = IF loc[t].block = 1 THEN quiesce_mutex ELSE 0
              /\ pc' = [pc EXCEPT ![t] = loc[t].ret]
              /\ loc' = [loc EXCEPT ![t].ret = "none", ![t].i = 0, ![t].block = 0]
              /\ Returned(t, "stm_quiesce", 0)
         ELSE /\ u = t \/ pc[u] = "exited" \/ ~IS_ACTIVE(tx[u].status)
              /\ loc' = [loc EXCEPT ![t].i = u + 1]
              /\ UNCHANGED <<quiesce_mutex, pc, result>>
  /\ UNCHANGED <<locks, mem, CLOCK, quiesce, threads_nb, tx, budget, fp, done,
                 hist, base>>

\* stm_quiesce_release, by the thread whose blocking stm_quiesce returned 0.
stm_quiesce_release(t) ==
  /\ pc[t] \in {"out", "body"}
  /\ quiesce_mutex = t
  /\ quiesce' = 0
  /\ quiesce_mutex' = 0
  /\ Returned(t, "stm_quiesce_release", NULL)
  /\ UNCHANGED <<locks, mem, CLOCK, threads_nb, tx, pc, loc, budget, fp, done,
                 hist, base>>

(***************************************************************************)
(* stm_wbetl_read_invisible.                                               *)
(***************************************************************************)
\* The value is handed to the application: the call returns.
ReadReturn(t, lc, value) ==
  /\ LogLoad(t, lc.addr, value)
  /\ Return(t)

\* "add to read set (update transactions) and return value"
ReadAppend(t, lc) ==
  IF tx[t].attr.read_only
  THEN tx
  ELSE [tx EXCEPT ![t].r_set =
          Append(@, [lock |-> GET_LOCK(lc.addr),
                     version |-> LOCK_GET_TIMESTAMP(lc.l)])]

\* A load that takes a lock word owned by another transaction for a free one
\* and goes on to read the application word.
ReadConflictIgnored(t, lc, l) ==
  /\ pc' = [pc EXCEPT ![t] = "read_value"]
  /\ loc' = [loc EXCEPT ![t] = [lc EXCEPT !.l = l]]

\* "Conflict: CM kicks in": stm_rollback(tx, STM_ABORT_RW_CONFLICT)
ReadConflict(t, lc, l) == CallRollback(t, lc, {"RW_CONFLICT"}, "load")

\* restart_no_load: what the load does with the lock word l it has read
ReadDispatch(t, lc, l) ==
  IF LOCK_GET_WRITE(l) = 1
  THEN IF InWriteSet(t, l)
       THEN LET b == BucketWalk(t, EntryIdx(t, LOCK_GET_ADDR(l)), lc.addr)
                w == tx[t].w_set[b.idx]
            IN  IF b.found /\ w.mask # 0
                THEN /\ ReadReturn(t, lc, w.value)
                     /\ UNCHANGED tx
                ELSE /\ pc' = [pc EXCEPT ![t] = "read_own"]
                     /\ loc' = [loc EXCEPT ![t] = [lc EXCEPT !.l = l]]
                     /\ UNCHANGED <<tx, fp>>
       ELSE /\ ReadConflict(t, lc, l)
            /\ UNCHANGED <<tx, fp>>
  ELSE /\ pc' = [pc EXCEPT ![t] = "read_value"]
       /\ loc' = [loc EXCEPT ![t] = [lc EXCEPT !.l = l]]
       /\ UNCHANGED <<tx, fp>>

\* int_stm_load: l = ATOMIC_LOAD_ACQ(lock)
int_stm_load(t, addr) ==
  /\ pc[t] = "body"
  /\ ReadDispatch(t, [NoLoc EXCEPT !.addr = addr], locks[GET_LOCK(addr)])
  /\ UNCHANGED <<locks, mem, CLOCK, quiesce, threads_nb, quiesce_mutex,
                 done, hist, base, result>>

\* stm_load, one of the operations the application may still issue
stm_load(t, addr) ==
  /\ budget[t].ops > 0
  /\ budget' = [budget EXCEPT ![t].ops = @ - 1]
  /\ int_stm_load(t, addr)

\* lock owned by the transaction, no value in the write set: ATOMIC_LOAD(addr)
read_own(t) ==
  /\ pc[t] = "read_own"
  /\ ReadReturn(t, loc[t], mem[loc[t].addr])
  /\ UNCHANGED <<locks, mem, CLOCK, quiesce, threads_nb, quiesce_mutex,
                 tx, budget, done, hist, base, result>>

\* lock free: value = ATOMIC_LOAD_ACQ(addr)
read_value(t) ==
  /\ pc[t] = "read_value"
  /\ pc' = [pc EXCEPT ![t] = "read_lock2"]
  /\ loc' = [loc EXCEPT ![t].value = mem[loc[t].addr]]
  /\ UNCHANGED <<locks, mem, CLOCK, quiesce, threads_nb, quiesce_mutex,
                 tx, budget, fp, done, hist, base, result>>

\* A load that takes every version for one of its snapshot.
ReadNeverExtends(t, version) == FALSE

\* A load that extends the snapshot whatever the version.
ReadAlwaysExtends(t, version) == TRUE

\* "Valid version?"
ReadNeedsExtend(t, version) == version > tx[t].end

\* l2 = ATOMIC_LOAD_ACQ(lock), then the check of the timestamp
read_lock2(t) ==
  /\ pc[t] = "read_lock2"
  /\ LET lc == loc[t]
         l2 == locks[GET_LOCK(lc.addr)]
     IN  IF lc.l # l2
         THEN ReadDispatch(t, lc, l2)
         ELSE IF ReadNeedsExtend(t, LOCK_GET_TIMESTAMP(lc.l))
              THEN IF tx[t].attr.read_only
                   THEN /\ CallRollback(t, lc, {"VAL_READ"}, "load")
                        /\ UNCHANGED <<tx, fp>>
                   ELSE /\ pc' = [pc EXCEPT ![t] = "extend"]
                        /\ UNCHANGED <<tx, loc, fp>>
              ELSE /\ tx' = ReadAppend(t, lc)
                   /\ ReadReturn(t, lc, lc.value)
  /\ UNCHANGED <<locks, mem, CLOCK, quiesce, threads_nb, quiesce_mutex,
                 budget, done, hist, base, result>>

\* after a successful extension: l2 = ATOMIC_LOAD_ACQ(lock)
read_lock3(t) ==
  /\ pc[t] = "read_lock3"
  /\ LET lc == loc[t]
         l2 == locks[GET_LOCK(lc.addr)]
     IN  IF lc.l # l2
         THEN ReadDispatch(t, lc, l2)
         ELSE /\ tx' = ReadAppend(t, lc)
              /\ ReadReturn(t, lc, lc.value)
  /\ UNCHANGED <<locks, mem, CLOCK, quiesce, threads_nb, quiesce_mutex,
                 budget, done, hist, base, result>>

(***************************************************************************)
(* stm_wbetl_validate and stm_wbetl_extend.                                *)
(***************************************************************************)
\* A validation that takes every lock word for a good one.
ValidateEntryAlways(t, r, l) == TRUE

\* One turn of the loop of stm_wbetl_validate: read-set entry r, lock word l.
ValidateEntry(t, r, l) ==
  IF LOCK_GET_OWNED(l) = 1
  THEN InWriteSet(t, l)
  ELSE LOCK_GET_TIMESTAMP(l) = r.version

\* stm_wbetl_extend: now = GET_CLOCK
extend(t) ==
  /\ pc[t] = "extend"
  /\ IF tx[t].r_set = <<>>
     THEN /\ tx' = [tx EXCEPT ![t].end = GET_CLOCK]
          /\ pc' = [pc EXCEPT ![t] = "read_lock3"]
          /\ UNCHANGED loc
     ELSE /\ pc' = [pc EXCEPT ![t] = "validate"]
          /\ loc' = [loc EXCEPT ![t].now = GET_CLOCK, ![t].i = 1, ![t].ctx = "extend"]
          /\ UNCHANGED tx
  /\ UNCHANGED <<locks, mem, CLOCK, quiesce, threads_nb, quiesce_mutex,
                 budget, fp, done, hist, base, result>>

\* stm_wbetl_validate, one read-set entry: l = ATOMIC_LOAD(r->lock)
validate(t) ==
  /\ pc[t] = "validate"
  /\ LET lc == loc[t]
         r == tx[t].r_set[lc.i]
         l == locks[r.lock]
     IN  IF ~ValidateEntry(t, r, l)
         THEN /\ IF lc.ctx = "extend"
                 THEN CallRollback(t, lc, {"VAL_READ"}, "load")
                 ELSE CallRollback(t, lc, {"VALIDATE"}, "commit")
              /\ UNCHANGED <<tx, done, hist>>
         ELSE IF lc.i < Len(tx[t].r_set)
         THEN /\ loc' = [loc EXCEPT ![t].i = lc.i + 1]
              /\ UNCHANGED <<tx, pc, done, hist>>
         ELSE IF lc.ctx = "extend"
         THEN /\ tx' = [tx EXCEPT ![t].end = lc.now]
              /\ pc' = [pc EXCEPT ![t] = "read_lock3"]
              /\ UNCHANGED <<loc, done, hist>>
         ELSE /\ pc' = [pc EXCEPT ![t] = "publish"]
              /\ loc' = [loc EXCEPT ![t].i = 1]
              /\ Committed(t, lc.t)
              /\ UNCHANGED tx
  /\ UNCHANGED <<locks, mem, CLOCK, quiesce, threads_nb, quiesce_mutex,
                 budget, fp, base, result>>

(***************************************************************************)
(* stm_wbetl_write.                                                        *)
(***************************************************************************)
WriteReturn(t, lc) ==
  /\ LogStore(t, lc.addr, lc.value, lc.mask)
  /\ Return(t)

\* value = (old & ~mask) | (value & mask)
Merge(old, value, mask) == BitOr(BitAnd(old, BitNot(mask)), BitAnd(value, mask))

\* A store that acquires the lock whatever the transaction has read.
WriteAfterStaleReadIgnored(t, lock, version) == FALSE

\* "Handle write after reads (before CAS)"
WriteAfterStaleRead(t, lock, version) ==
  version > tx[t].end /\ stm_has_read(t, lock)

\* A store that reads the lock word again as long as another transaction
\* owns the lock (what the code does for an irrevocable transaction).
WriteConflictSpins(t, lc) ==
  /\ pc' = [pc EXCEPT ![t] = "write_lock"]
  /\ loc' = [loc EXCEPT ![t] = lc]

\* "Conflict: CM kicks in": stm_rollback(tx, STM_ABORT_WW_CONFLICT)
WriteConflict(t, lc) == CallRollback(t, lc, {"WW_CONFLICT"}, "store")

\* restart_no_load: what the store does with the lock word l it has read
WriteDispatch(t, lc, l) ==
  IF LOCK_GET_OWNED(l) = 1
  THEN IF InWriteSet(t, l)
       THEN IF lc.mask = 0
            THEN /\ WriteReturn(t, lc)
                 /\ UNCHANGED tx
            ELSE LET b == BucketWalk(t, EntryIdx(t, LOCK_GET_ADDR(l)), lc.addr)
                     prev == tx[t].w_set[b.idx]
                 IN  IF b.found
                     THEN IF lc.mask # FULL_MASK /\ prev.mask = 0
                          THEN /\ pc' = [pc EXCEPT ![t] = "write_merge"]
                               /\ loc' = [loc EXCEPT ![t] = [lc EXCEPT !.prev = b.idx]]
                               /\ UNCHANGED <<tx, fp>>
                          ELSE /\ tx' = [tx EXCEPT ![t].w_set[b.idx].value =
                                           IF lc.mask # FULL_MASK
                                           THEN Merge(prev.value, lc.value, lc.mask)
                                           ELSE lc.value,
                                         ![t].w_set[b.idx].mask = BitOr(@, lc.mask)]
                               /\ WriteReturn(t, lc)
                     ELSE LET lc2 == [lc EXCEPT !.prev = b.idx, !.version = prev.version]
                          IN  /\ IF NbEntries(t) = tx[t].w_size
                                 THEN CallRollback(t, lc2, {"EXTEND_WS"}, "write_own")
                                 ELSE /\ pc' = [pc EXCEPT ![t] = "do_write"]
                                      /\ loc' = [loc EXCEPT ![t] = lc2]
                              /\ UNCHANGED <<tx, fp>>
       ELSE /\ WriteConflict(t, lc)
            /\ UNCHANGED <<tx, fp>>
  ELSE LET lc2 == [lc EXCEPT !.l = l, !.version = LOCK_GET_TIMESTAMP(l)]
       IN  /\ IF WriteAfterStaleRead(t, GET_LOCK(lc.addr), lc2.version)
              THEN CallRollback(t, lc2, {"VAL_WRITE"}, "store")
              ELSE IF NbEntries(t) = tx[t].w_size
              THEN CallRollback(t, lc2, {"EXTEND_WS"}, "write_free")
              ELSE /\ pc' = [pc EXCEPT ![t] = "write_cas"]
                   /\ loc' = [loc EXCEPT ![t] = lc2]
           /\ UNCHANGED <<tx, fp>>

\* int_stm_store, int_stm_store2: l = ATOMIC_LOAD_ACQ(lock)
int_stm_store(t, s) ==
  /\ pc[t] = "body"
  /\ ~tx[t].attr.read_only
  /\ WriteDispatch(t, [NoLoc EXCEPT !.addr = s.addr, !.value = s.value,
                                   !.mask = s.mask],
                   locks[GET_LOCK(s.addr)])
  /\ UNCHANGED <<locks, mem, CLOCK, quiesce, threads_nb, quiesce_mutex,
                 done, hist, base, result>>

\* stm_store, stm_store2, one of the operations the application may still issue
stm_store(t, s) ==
  /\ budget[t].ops > 0
  /\ budget' = [budget EXCEPT ![t].ops = @ - 1]
  /\ int_stm_store(t, s)

\* goto restart: l = ATOMIC_LOAD_ACQ(lock)
write_lock(t) ==
  /\ pc[t] = "write_lock"
  /\ WriteDispatch(t, loc[t], locks[GET_LOCK(loc[t].addr)])
  /\ UNCHANGED <<locks, mem, CLOCK, quiesce, threads_nb, quiesce_mutex,
                 budget, done, hist, base, result>>

\* entry of the transaction with mask 0: prev->value = ATOMIC_LOAD(addr)
write_merge(t) ==
  /\ pc[t] = "write_merge"
  /\ LET lc == loc[t]
     IN  /\ tx' = [tx EXCEPT ![t].w_set[lc.prev].value =
                     Merge(mem[lc.addr], lc.value, lc.mask),
                   ![t].w_set[lc.prev].mask = BitOr(@, lc.mask)]
         /\ WriteReturn(t, lc)
  /\ UNCHANGED <<locks, mem, CLOCK, quiesce, threads_nb, quiesce_mutex,
                 budget, done, hist, base, result>>

\* A compare-and-swap that writes whatever the word holds.
CasAlwaysSucceeds(cur, expected) == TRUE

\* A compare-and-swap writes when the word still is the expected one.
CasSucceeds(cur, expected) == cur = expected

\* ATOMIC_CAS_FULL(lock, l, LOCK_SET_ADDR_WRITE((stm_word_t)w))
write_cas(t) ==
  /\ pc[t] = "write_cas"
  /\ LET lc == loc[t]
         lock == GET_LOCK(lc.addr)
     IN  IF CasSucceeds(locks[lock], lc.l)
         THEN /\ locks' = [locks EXCEPT ![lock] =
                             LOCK_SET_ADDR_WRITE(EntryPtr(t, NbEntries(t) + 1))]
              /\ pc' = [pc EXCEPT ![t] = "do_write"]
              /\ fp' = [fp EXCEPT ![t].held[lock] = locks[lock]]
         ELSE /\ pc' = [pc EXCEPT ![t] = "write_lock"]
              /\ UNCHANGED <<locks, fp>>
  /\ UNCHANGED <<mem, CLOCK, quiesce, threads_nb, quiesce_mutex,
                 tx, loc, budget, done, hist, base, result>>

\* The value of a new write-set entry.
NewEntryValue(old, value, mask) ==
  IF mask = 0 THEN 0
  ELSE IF mask # FULL_MASK THEN Merge(old, value, mask)
  ELSE value

\* do_write: fill the entry, link it to its bucket
do_write(t) ==
  /\ pc[t] = "do_write"
  /\ LET lc == loc[t]
         n == NbEntries(t) + 1
         w == [addr |-> lc.addr,
               value |-> NewEntryValue(mem[lc.addr], lc.value, lc.mask),
               mask |-> lc.mask, version |-> lc.version,
               lock |-> GET_LOCK(lc.addr), next |-> NULL]
         linked == IF lc.prev # NULL
                   THEN [tx[t].w_set EXCEPT ![lc.prev].next = EntryPtr(t, n)]
                   ELSE tx[t].w_set
     IN  /\ tx' = [tx EXCEPT ![t].w_set = Append(linked, w)]
         /\ LogStore(t, lc.addr, lc.value, lc.mask)
         /\ loc' = [loc EXCEPT ![t] = NoLoc]
         /\ pc' = [pc EXCEPT ![t] = IF IS_ACTIVE(tx[t].status) THEN "body" ELSE "out"]
  /\ UNCHANGED <<locks, mem, CLOCK, quiesce, threads_nb, quiesce_mutex,
                 budget, done, hist, base, result>>

(***************************************************************************)
(* int_stm_commit and stm_wbetl_commit.                                    *)
(***************************************************************************)
\* A commit that never validates its read set.
CommitNeverValidates(t, ts) == FALSE

\* "only if a concurrent transaction has committed since tx->start"
CommitNeedsValidate(t, ts) == tx[t].start # ts - 1

\* A commit that takes every commit for the outermost one.
CommitNeverNested(t) == FALSE

\* if (unlikely(--tx->nesting > 0)) return 1
CommitIsNested(t) == tx[t].nesting - 1 > 0

\* A commit that reads the clock and leaves it as it is.
FETCH_CLOCK == CLOCK' = CLOCK

\* FETCH_INC_CLOCK: ATOMIC_FETCH_INC_FULL(&CLOCK)
FETCH_INC_CLOCK == CLOCK' = CLOCK + 1

\* stm_commit: --nesting, then t = FETCH_INC_CLOCK + 1 for an update transaction
stm_commit(t) ==
  /\ pc[t] = "body"
  /\ IF CommitIsNested(t)
     THEN /\ tx' = [tx EXCEPT ![t].nesting = @ - 1]
          /\ Returned(t, "stm_commit", 1)
          /\ UNCHANGED <<CLOCK, pc, loc, done, hist>>
     ELSE IF NbEntries(t) = 0
     THEN /\ tx' = [tx EXCEPT ![t].nesting = @ - 1, ![t].status = TX_COMMITTED]
          /\ pc' = [pc EXCEPT ![t] = "out"]
          /\ done' = [done EXCEPT ![t] = [kind |-> "ro", ts |-> tx[t].end]]
          /\ Returned(t, "stm_commit", 1)
          /\ UNCHANGED <<CLOCK, loc, hist>>
     ELSE LET ts == CLOCK + 1
          IN  /\ FETCH_INC_CLOCK
              /\ tx' = [tx EXCEPT ![t].nesting = @ - 1]
              /\ UNCHANGED result
              /\ IF CommitNeedsValidate(t, ts) /\ tx[t].r_set # <<>>
                 THEN /\ pc' = [pc EXCEPT ![t] = "validate"]
                      /\ loc' = [loc EXCEPT ![t] =
                                   [NoLoc EXCEPT !.t = ts, !.i = 1, !.ctx = "commit"]]
                      /\ UNCHANGED <<done, hist>>
                 ELSE /\ pc' = [pc EXCEPT ![t] = "publish"]
                      /\ loc' = [loc EXCEPT ![t] = [NoLoc EXCEPT !.t = ts, !.i = 1]]
                      /\ Committed(t, ts)
  /\ UNCHANGED <<locks, mem, quiesce, threads_nb, quiesce_mutex,
                 budget, fp, base>>

\* i--, w++ in the loop of stm_wbetl_commit; after it int_stm_commit sets
\* the status to TX_COMMITTED and returns 1
CommitAdvance(t) ==
  IF loc[t].i = NbEntries(t)
  THEN /\ tx' = [tx EXCEPT ![t].status = TX_COMMITTED]
       /\ pc' = [pc EXCEPT ![t] = "out"]
       /\ loc' = [loc EXCEPT ![t] = NoLoc]
       /\ Returned(t, "stm_commit", 1)
  ELSE /\ loc' = [loc EXCEPT ![t].i = @ + 1]
       /\ pc' = [pc EXCEPT ![t] = "publish"]
       /\ UNCHANGED <<tx, result>>

\* The word a committed bucket's lock is released to.
CommitLockWord(ts) == LOCK_SET_TIMESTAMP(ts)

\* A commit that releases the lock at every entry.
ReleasesAtEveryEntry(w) == TRUE

\* "Only drop lock for last covered address in write set"
ReleasesLock(w) == w.next = NULL

\* A commit that stores the value of every entry.
PublishesEveryEntry(w) == TRUE

\* if (w->mask != 0)
PublishesValue(w) == w.mask # 0

\* if (w->mask != 0) ATOMIC_STORE(w->addr, w->value)
publish(t) ==
  /\ pc[t] = "publish"
  /\ LET w == tx[t].w_set[loc[t].i]
     IN  IF PublishesValue(w)
         THEN /\ mem' = [mem EXCEPT ![w.addr] = w.value]
              /\ UNCHANGED locks
              /\ IF ReleasesLock(w)
                 THEN /\ pc' = [pc EXCEPT ![t] = "release"]
                      /\ UNCHANGED <<tx, loc, result>>
                 ELSE CommitAdvance(t)
         ELSE /\ UNCHANGED mem
              /\ locks' = IF ReleasesLock(w)
                          THEN [locks EXCEPT ![w.lock] = CommitLockWord(loc[t].t)]
                          ELSE locks
              /\ CommitAdvance(t)
  /\ UNCHANGED <<CLOCK, quiesce, threads_nb, quiesce_mutex,
                 budget, fp, done, hist, base>>

\* if (w->next == NULL) ATOMIC_STORE_REL(w->lock, LOCK_SET_TIMESTAMP(t))
release(t) ==
  /\ pc[t] = "release"
  /\ LET w == tx[t].w_set[loc[t].i]
     IN  locks' = [locks EXCEPT ![w.lock] = CommitLockWord(loc[t].t)]
  /\ CommitAdvance(t)
  /\ UNCHANGED <<mem, CLOCK, quiesce, threads_nb, quiesce_mutex,
                 budget, fp, done, hist, base>>

(***************************************************************************)
(* stm_abort, stm_rollback and stm_wbetl_rollback.                         *)
(***************************************************************************)
\* A stm_abort that hands its caller's reason to stm_rollback as it is.
stm_abort_plain(t, reason) ==
  /\ pc[t] = "body"
  /\ budget[t].ops > 0
  /\ budget' = [budget EXCEPT ![t].ops = @ - 1]
  /\ CallRollback(t, NoLoc, reason, "abort")
  /\ UNCHANGED <<locks, mem, CLOCK, quiesce, threads_nb, quiesce_mutex,
                 tx, fp, done, hist, base, result>>

\* stm_abort: stm_rollback(tx, reason | STM_ABORT_EXPLICIT)
stm_abort(t, reason) ==
  /\ pc[t] = "body"
  /\ budget[t].ops > 0
  /\ budget' = [budget EXCEPT ![t].ops = @ - 1]
  /\ CallRollback(t, NoLoc, reason \cup {"EXPLICIT"}, "abort")
  /\ UNCHANGED <<locks, mem, CLOCK, quiesce, threads_nb, quiesce_mutex,
                 tx, fp, done, hist, base, result>>

\* The word an aborted bucket's lock is released to.
RollbackLockWord(w) == LOCK_SET_TIMESTAMP(w.version)

\* A rollback that releases no lock.
DropsNoLock(w) == FALSE

\* "Only drop lock for last covered address in write set"
DropsLock(w) == w.next = NULL

\* stm_rollback after stm_wbetl_rollback.  When it returns (no retry) into
\* stm_wbetl_commit, that returns 0 to int_stm_commit, which does not look at
\* the value, sets the status to TX_COMMITTED and returns 1.
RollbackEnd(t) ==
  LET lc == loc[t]
      no_retry == tx[t].attr.no_retry \/ "NO_RETRY" \in lc.reason
      size == IF lc.reason = {"EXTEND_WS"} THEN 2 * tx[t].w_size ELSE tx[t].w_size
  IN  IF no_retry
      THEN /\ tx' = [tx EXCEPT ![t].status = IF lc.ret = "commit"
                                             THEN TX_COMMITTED ELSE TX_ABORTED,
                               ![t].w_size = size,
                               ![t].nesting = 0]
           /\ pc' = [pc EXCEPT ![t] =
                       CASE lc.ret = "write_own" -> "do_write"
                         [] lc.ret = "write_free" -> "write_cas"
                         [] OTHER -> "out"]
           /\ loc' = IF lc.ret \in {"write_own", "write_free"}
                     THEN loc ELSE [loc EXCEPT ![t] = NoLoc]
           /\ IF lc.ret = "commit"
              THEN Returned(t, "stm_commit", 1)
              ELSE UNCHANGED result
      ELSE /\ tx' = [tx EXCEPT ![t].status = TX_ABORTED,
                               ![t].w_size = size,
                               ![t].nesting = 1]
           /\ pc' = [pc EXCEPT ![t] = "prepare"]
           /\ UNCHANGED <<loc, result>>

\* stm_wbetl_rollback: the next lock to drop, or the end of the loop
rollback(t) ==
  /\ pc[t] = "rollback"
  /\ LET lc == loc[t]
         drop == {j \in lc.i .. NbEntries(t) : DropsLock(tx[t].w_set[j])}
     IN  IF drop # {}
         THEN LET j == CHOOSE k \in drop : \A m \in drop : k <= m
                  w == tx[t].w_set[j]
              IN  /\ locks' = [locks EXCEPT ![w.lock] = RollbackLockWord(w)]
                  /\ loc' = [loc EXCEPT ![t].i = j + 1]
                  /\ UNCHANGED <<tx, pc, result>>
         ELSE /\ RollbackEnd(t)
              /\ UNCHANGED locks
  /\ UNCHANGED <<mem, CLOCK, quiesce, threads_nb, quiesce_mutex,
                 budget, fp, done, hist, base>>

\* assert(IS_ACTIVE(tx->status)) at the entry of stm_rollback.  The status is
\* not Active when the rollback is the second one of a store that went on
\* after a rollback that returned.  A build that keeps assertions ends the
\* process here; a build with NDEBUG goes on with rollback(t).
assert_failed(t) ==
  /\ pc[t] = "rollback"
  /\ loc[t].i = 1
  /\ ~IS_ACTIVE(tx[t].status)
  /\ pc' = [u \in Tx |-> "terminated"]
  /\ UNCHANGED <<locks, mem, CLOCK, quiesce, threads_nb, quiesce_mutex,
                 tx, loc, budget, fp, done, hist, base, result>>

(***************************************************************************)
(* stm_quiesce_barrier with rollover_clock, and stm_exit_thread.           *)
(***************************************************************************)
Waiting == {u \in Tx : pc[u] = "barrier_wait"}

\* A loop whose turn runs the action whatever the count of threads is.
BarrierLoopAnyCount(t, nb, q) ==
  IF q # 0
  THEN /\ pc' = [pc EXCEPT ![t] = "barrier_action"]
       /\ quiesce_mutex' = t
       /\ threads_nb' = nb
       /\ quiesce' = q
  ELSE /\ pc' = [pc EXCEPT ![t] = "prepare"]
       /\ quiesce_mutex' = 0
       /\ threads_nb' = nb + 1
       /\ quiesce' = q

\* while (_tinystm.quiesce): one turn with threads_nb = nb and quiesce = q,
\* the mutex held
BarrierLoop(t, nb, q) ==
  IF q # 0
  THEN IF nb = 0
       THEN /\ pc' = [pc EXCEPT ![t] = "barrier_action"]
            /\ quiesce_mutex' = t
            /\ threads_nb' = nb
            /\ quiesce' = q
       ELSE /\ pc' = [pc EXCEPT ![t] = "barrier_wait"]
            /\ quiesce_mutex' = 0
            /\ threads_nb' = nb
            /\ quiesce' = q
  ELSE /\ pc' = [pc EXCEPT ![t] = "prepare"]
       /\ quiesce_mutex' = 0
       /\ threads_nb' = nb + 1
       /\ quiesce' = q

\* pthread_mutex_lock, threads_nb--, "We are first on the barrier"
barrier(t) ==
  /\ pc[t] = "barrier"
  /\ quiesce_mutex = 0
  /\ BarrierLoop(t, threads_nb - 1, IF quiesce = 0 THEN 1 ELSE quiesce)
  /\ UNCHANGED <<locks, mem, CLOCK, tx, loc, budget, fp, done, hist, base, result>>

\* return of pthread_cond_wait with the mutex taken again
barrier_wake(t) ==
  /\ pc[t] = "barrier_wake"
  /\ quiesce_mutex = 0
  /\ BarrierLoop(t, threads_nb, quiesce)
  /\ UNCHANGED <<locks, mem, CLOCK, tx, loc, budget, fp, done, hist, base, result>>

\* A roll-over that leaves the clock at 1.
rollover_clock_to_one ==
  /\ CLOCK' = 1
  /\ locks' = [k \in LockIdx |-> 0]

\* A roll-over that resets the clock and leaves the lock words.
rollover_clock_only ==
  /\ CLOCK' = 0
  /\ locks' = locks

\* rollover_clock
rollover_clock ==
  /\ CLOCK' = 0
  /\ locks' = [k \in LockIdx |-> 0]

\* "Everybody is blocked": f(arg), quiesce = 0, broadcast, threads_nb++, unlock
barrier_action(t) ==
  /\ pc[t] = "barrier_action"
  /\ rollover_clock
  /\ quiesce' = 0
  /\ pc' = [u \in Tx |-> IF u = t THEN "prepare"
                         ELSE IF u \in Waiting THEN "barrier_wake"
                         ELSE pc[u]]
  /\ threads_nb' = threads_nb + 1
  /\ quiesce_mutex' = 0
  /\ base' = SnapAt(MaxTs)
  /\ hist' = [ts \in 1 .. MaxTs |-> NoEffect]
  /\ done' = [u \in Tx |-> NotDone]
  /\ fp' = [u \in Tx |-> NoFp]
  /\ UNCHANGED <<mem, tx, loc, budget, result>>

\* An exit that wakes no thread.
ExitWithoutSignal(t) == pc' = [pc EXCEPT ![t] = "exited"]

\* if (_tinystm.quiesce) pthread_cond_signal: "Wake up someone in case other
\* threads are waiting for us"
ExitSignal(t) ==
  IF quiesce # 0 /\ Waiting # {}
  THEN \E u \in Waiting :
         pc' = [pc EXCEPT ![t] = "exited", ![u] = "barrier_wake"]
  ELSE pc' = [pc EXCEPT ![t] = "exited"]

\* stm_exit_thread: stm_quiesce_exit_thread
stm_exit_thread(t) ==
  /\ pc[t] = "out"
  /\ quiesce_mutex = 0
  /\ threads_nb' = threads_nb - 1
  /\ ExitSignal(t)
  /\ UNCHANGED <<locks, mem, CLOCK, quiesce, quiesce_mutex,
                 tx, loc, budget, fp, done, hist, base, result>>

\* A test of the thread-local descriptor that never finds one.
HasNoDescriptor(t) == FALSE

\* tls_get_tx() != NULL: the thread has a descriptor from stm_init_thread
\* until stm_exit_thread
HasDescriptor(t) == pc[t] # "exited"

\* stm_init_thread: int_stm_init_thread and stm_quiesce_enter_thread.  The
\* call returns the descriptor of the thread, named by the thread.
stm_init_thread(t) ==
  /\ pc[t] \in {"out", "body", "exited"}
  /\ IF HasDescriptor(t)
     THEN UNCHANGED <<tx, pc, threads_nb>>
     ELSE /\ quiesce_mutex = 0
          /\ tx' = [tx EXCEPT ![t] = InitTx]
          /\ threads_nb' = threads_nb + 1
          /\ pc' = [pc EXCEPT ![t] = "out"]
  /\ Returned(t, "stm_init_thread", t)
  /\ UNCHANGED <<locks, mem, CLOCK, quiesce, quiesce_mutex,
                 loc, budget, fp, done, hist, base>>

(***************************************************************************)
(* The program.                                                            *)
(***************************************************************************)
Next ==
  \/ \E t \in Tx :
       \/ \E attr \in Attrs(t) : stm_start(t, attr)
       \/ int_stm_prepare(t)
       \/ \E addr \in LoadAddrs(t) : stm_load(t, addr)
       \/ read_own(t)
       \/ read_value(t)
       \/ read_lock2(t)
       \/ read_lock3(t)
       \/ extend(t)
       \/ validate(t)
       \/ \E s \in StoreOps(t) : stm_store(t, s)
       \/ write_lock(t)
       \/ write_merge(t)
       \/ write_cas(t)
       \/ do_write(t)
       \/ stm_commit(t)
       \/ publish(t)
       \/ release(t)
       \/ \E reason \in AbortReasons : stm_abort(t, reason)
       \/ rollback(t)
       \/ assert_failed(t)
       \/ barrier(t)
       \/ barrier_wake(t)
       \/ barrier_action(t)
       \/ stm_exit_thread(t)

Spec == Init /\ [][Next]_vars

(***************************************************************************)
(* The program with an application whose thread 1 runs transactions that   *)
(* do not retry (attr.no_retry) and store to more words than the write set *)
(* holds, next to one transaction of each other thread.  No thread leaves. *)
(***************************************************************************)
OverflowAttr(t) == [NoAttr EXCEPT !.no_retry = (t = 1)]
OverflowLoads == {0}
OverflowStores(t) ==
  IF t = 1
  THEN {[addr |-> 0, value |-> 1, mask |-> 1],
        [addr |-> 1, value |-> 1, mask |-> FULL_MASK],
        [addr |-> 2, value |-> 1, mask |-> FULL_MASK]}
  ELSE {[addr |-> 0, value |-> 2, mask |-> 2],
        [addr |-> 2, value |-> 2, mask |-> FULL_MASK]}

InitOverflow ==
  Start([t \in Tx |-> IF t = 1 THEN [ops |-> OverflowOps, txs |-> OverflowTx]
                               ELSE [ops |-> OverflowAdvOps, txs |-> MaxTx]])

NextOverflow ==
  \E t \in Tx :
       \/ pc[t] = "out" /\ stm_start(t, OverflowAttr(t))
       \/ int_stm_prepare(t)
       \/ \E addr \in OverflowLoads : stm_load(t, addr)
       \/ read_own(t)
       \/ read_value(t)
       \/ read_lock2(t)
       \/ read_lock3(t)
       \/ extend(t)
       \/ validate(t)
       \/ \E s \in OverflowStores(t) : stm_store(t, s)
       \/ write_lock(t)
       \/ write_cas(t)
       \/ do_write(t)
       \/ stm_commit(t)
       \/ publish(t)
       \/ release(t)
       \/ rollback(t)
       \/ assert_failed(t)
       \/ barrier(t)

SpecOverflow == InitOverflow /\ [][NextOverflow]_vars

(***************************************************************************)
(* The program with an application whose thread 1 runs transactions that   *)
(* do not retry, fills its write set in one of them and goes on to begin   *)
(* at a clock of VERSION_MAX, next to a thread that commits one store and  *)
(* leaves: the quiescence barrier and the roll-over are part of it.  No    *)
(* transaction loads, stores twice to a word or rolls back twice.          *)
(***************************************************************************)
LeakStores(t) ==
  IF t = 1
  THEN {[addr |-> 0, value |-> 1, mask |-> 1],
        [addr |-> 1, value |-> 1, mask |-> FULL_MASK],
        [addr |-> 2, value |-> 1, mask |-> FULL_MASK]}
  ELSE {[addr |-> 0, value |-> 2, mask |-> FULL_MASK]}

InitLeak ==
  Start([t \in Tx |-> IF t = 1 THEN [ops |-> OverflowOps, txs |-> LeakTx]
                               ELSE [ops |-> AdvOps, txs |-> MaxTx]])

NextLeak ==
  \E t \in Tx :
       \/ pc[t] = "out" /\ stm_start(t, OverflowAttr(t))
       \/ int_stm_prepare(t)
       \/ \E s \in LeakStores(t) : stm_store(t, s)
       \/ write_lock(t)
       \/ write_cas(t)
       \/ do_write(t)
       \/ stm_commit(t)
       \/ publish(t)
       \/ release(t)
       \/ rollback(t)
       \/ barrier(t)
       \/ barrier_wake(t)
       \/ barrier_action(t)
       \/ stm_exit_thread(t)

SpecLeak == InitLeak /\ [][NextLeak]_vars

(***************************************************************************)
(* Scenario S3 of the specification: every thread t runs the transaction   *)
(* {store(x, t); commit} once, x being word 0; a transaction that is       *)
(* rolled back runs again from its start (the jump to the saved            *)
(* environment), as often as it takes.  Every thread that can take a step  *)
(* eventually takes one.                                                   *)
(***************************************************************************)
S3Store(t) == [addr |-> 0, value |-> t, mask |-> FULL_MASK]

InitS3 == Start([t \in Tx |-> [ops |-> 0, txs |-> 1]])

RunS3(t) ==
  \/ pc[t] = "out" /\ stm_start(t, NoAttr)
  \/ int_stm_prepare(t)
  \/ NbEntries(t) = 0 /\ int_stm_store(t, S3Store(t)) /\ UNCHANGED budget
  \/ write_lock(t)
  \/ write_cas(t)
  \/ do_write(t)
  \/ NbEntries(t) = 1 /\ stm_commit(t)
  \/ publish(t)
  \/ release(t)
  \/ rollback(t)

NextS3 == \E t \in Tx : RunS3(t)

SpecS3 == InitS3 /\ [][NextS3]_vars /\ \A t \in Tx : WF_vars(RunS3(t))

(***************************************************************************)
(* The program with an application whose threads run the transaction       *)
(* {store(x, t); commit}, x being word 0, up to LiveTx times each, and     *)
(* leave at some point between two transactions: the clock reaches         *)
(* VERSION_MAX, and a thread that has been through the barrier can come    *)
(* back to it.  Every thread that can take a step eventually takes one: a  *)
(* thread outside a transaction eventually begins one or leaves.           *)
(***************************************************************************)
InitLive == Start([t \in Tx |-> [ops |-> 0, txs |-> LiveTx]])

RunLive(t) ==
  \/ pc[t] = "out" /\ stm_start(t, NoAttr)
  \/ int_stm_prepare(t)
  \/ NbEntries(t) = 0 /\ int_stm_store(t, S3Store(t)) /\ UNCHANGED budget
  \/ write_lock(t)
  \/ write_cas(t)
  \/ do_write(t)
  \/ NbEntries(t) = 1 /\ stm_commit(t)
  \/ publish(t)
  \/ release(t)
  \/ rollback(t)
  \/ barrier(t)
  \/ barrier_wake(t)
  \/ barrier_action(t)
  \/ stm_exit_thread(t)

NextLive == \E t \in Tx : RunLive(t)

SpecLive == InitLive /\ [][NextLive]_vars /\ \A t \in Tx : WF_vars(RunLive(t))

(***************************************************************************)
(* Cooperative quiescence: threads that run single-store transactions on   *)
(* the same word and call stm_quiesce and stm_quiesce_release between or   *)
(* inside them.                                                            *)
(***************************************************************************)
InitQuiesce == Start([t \in Tx |-> [ops |-> QuiesceOps, txs |-> QuiesceTx]])

RunQuiesce(t) ==
  \/ pc[t] = "out" /\ stm_start(t, NoAttr)
  \/ int_stm_prepare(t)
  \/ stm_check_quiesce(t)
  \/ quiesce_spin(t)
  \/ quiesce_restore(t)
  \/ NbEntries(t) = 0 /\ int_stm_store(t, S3Store(t)) /\ UNCHANGED budget
  \/ write_lock(t)
  \/ write_cas(t)
  \/ do_write(t)
  \/ NbEntries(t) = 1 /\ stm_commit(t)
  \/ publish(t)
  \/ release(t)
  \/ rollback(t)
  \/ \E block \in {0, 1} : stm_quiesce(t, block)
  \/ quiesce_scan(t)
  \/ stm_quiesce_release(t)

NextQuiesce == \E t \in Tx : RunQuiesce(t)

SpecQuiesce == InitQuiesce /\ [][NextQuiesce]_vars

(***************************************************************************)
(* The program from stm_init on, no thread having called stm_init_thread   *)
(* yet: a thread registers, runs the transactions of the application       *)
(* above, calls stm_init_thread again at will, leaves, registers again.    *)
(***************************************************************************)
InitThreads ==
  /\ locks = [k \in LockIdx |-> 0]
  /\ mem = [a \in Addr |-> 0]
  /\ CLOCK = 0
  /\ quiesce = 0
  /\ threads_nb = 0
  /\ quiesce_mutex = 0
  /\ tx = [t \in Tx |-> InitTx]
  /\ pc = [t \in Tx |-> "exited"]
  /\ loc = [t \in Tx |-> NoLoc]
  /\ budget = [t \in Tx |-> [ops |-> 0, txs |-> LiveTx]]
  /\ fp = [t \in Tx |-> NoFp]
  /\ done = [t \in Tx |-> NotDone]
  /\ hist = [ts \in 1 .. MaxTs |-> NoEffect]
  /\ base = [a \in Addr |-> 0]
  /\ result = [t \in Tx |-> NoResult]

NextThreads == \E t \in Tx : RunLive(t) \/ stm_init_thread(t)

SpecThreads == InitThreads /\ [][NextThreads]_vars

(***************************************************************************)
(* Properties.                                                             *)
(***************************************************************************)
\* The threads whose commit has its timestamp and has not yet released its
\* last lock.
Publishing == {t \in Tx : done[t].kind = "upd" /\ tx[t].status # TX_COMMITTED}
Finished(t) == pc[t] \in {"out", "exited"}
HasCommitted(t) == Finished(t) /\ done[t].kind = "upd"

\* C1: atomicity and serializability.  Every application word that no commit
\* is in the course of writing holds what the committed transactions, run one
\* after another in the order of their commit timestamps, leave in it; what
\* transactions that did not commit have stored is in none of them.
C1_Serializable ==
  \A a \in Addr :
    (\A t \in Publishing : fp[t].wr[a].m = 0) => mem[a] = SnapAt(MaxTs)[a]

\* What thread t has seen from outside is what the commits of timestamps
\* 1 .. c have left in the words.
ReadsAt(t, c) ==
  \A a \in Addr : Agree(SnapAt(c)[a], fp[t].rd[a].v, fp[t].rd[a].m)

\* The step in which a commit gets past its validation.
ReachesCommitPoint(t) == pc[t] \notin {"publish", "release"} /\ pc'[t] = "publish"

Owner(l) == {u \in Tx : LOCK_GET_OWNED(l) = 1 /\ InWriteSet(u, l)}

\* C2 as stated: a committed transaction has read what the words held just
\* before its commit timestamp (at `end`, with an empty write set), and at the
\* commit point of a transaction with a write set every lock of its read set
\* is free with the version read or owned by the transaction itself.
C2_ReadSetLocksAtCommit ==
  /\ [](\A t \in Tx :
          /\ done[t].kind = "upd" => ReadsAt(t, done[t].ts - 1)
          /\ done[t].kind = "ro" => ReadsAt(t, done[t].ts))
  /\ [][\A t \in Tx : ReachesCommitPoint(t) =>
          \A i \in 1 .. Len(tx[t].r_set) :
            LET r == tx[t].r_set[i]
                l == locks'[r.lock]
            IN  IF LOCK_GET_OWNED(l) = 1
                THEN Owner(l) = {t}
                ELSE LOCK_GET_TIMESTAMP(l) = r.version]_vars

\* C3 as stated: for an active transaction there is one clock value c <= end
\* such that every value a load has returned from a word the transaction has
\* not written is the value committed at c.
C3_LoadContract ==
  \A t \in Tx :
    (pc[t] = "body" /\ IS_ACTIVE(tx[t].status)) =>
      /\ \E c \in 0 .. tx[t].end :
           \A a \in Addr :
             fp[t].wr[a].m = 0 => Agree(SnapAt(c)[a], fp[t].rd[a].v, fp[t].rd[a].m)
      /\ (fp[t].last.on /\ fp[t].wr[fp[t].last.addr].m = 0) =>
           fp[t].last.value = fp[t].rd[fp[t].last.addr].v

\* The transaction the counterexample of C3 leaves behind is still running:
\* one load has returned what a word held before a commit, a later load what
\* another word holds after the same commit.
C3_TornView ==
  \E t \in Tx :
    /\ pc[t] = "body" /\ IS_ACTIVE(tx[t].status)
    /\ \A c \in 0 .. MaxTs :
         \E a \in Addr :
           fp[t].wr[a].m = 0 /\ ~Agree(SnapAt(c)[a], fp[t].rd[a].v, fp[t].rd[a].m)

\* The step in which a load of thread t returns.
LoadReturns(t) ==
  /\ pc'[t] = "body"
  /\ fp'[t].last.on
  /\ \/ pc[t] \in {"read_own", "read_lock2", "read_lock3"}
     \/ pc[t] = "body" /\ budget'[t] # budget[t] /\ tx'[t].nesting = tx[t].nesting

\* C4: read-after-write.  A load of a word the transaction has stored to with
\* a mask that is not 0 returns the stored bits under the masks of the stores
\* and, in the other bits, what the word held when the entry was made (the
\* word itself: it cannot change while the transaction holds its lock), and
\* the load leaves the read set as it is.
C4_ReadAfterWrite ==
  [][\A t \in Tx :
       LET a == fp'[t].last.addr
       IN  (LoadReturns(t) /\ fp[t].wr[a].m # 0) =>
             /\ fp'[t].last.value = Stored(mem[a], fp[t].wr[a].v, fp[t].wr[a].m)
             /\ tx'[t].r_set = tx[t].r_set]_vars

Disjoint(m1, m2) == Stored(0, m1, m2) = 0

\* The timestamps, other than those of t and u, of commits that have stored to
\* a after the first of the commits of t and u.
OtherLaterCommits(a, t, u) ==
  {c \in 1 .. MaxTs : /\ c \notin {done[t].ts, done[u].ts}
                      /\ (c > done[t].ts \/ c > done[u].ts)
                      /\ hist[c][a].m # 0}

\* C5: no lost updates under masks.  When two transactions have committed
\* stores to one word under disjoint masks and no other commit has stored to
\* the word since, the word holds the bits of each under its mask.
C5_NoLostUpdate ==
  \A t \in Tx, u \in Tx, a \in Addr :
    ( /\ t # u /\ HasCommitted(t) /\ HasCommitted(u)
      /\ fp[t].wr[a].m # 0 /\ fp[u].wr[a].m # 0
      /\ Disjoint(fp[t].wr[a].m, fp[u].wr[a].m)
      /\ OtherLaterCommits(a, t, u) = {} )
    => /\ Agree(mem[a], fp[t].wr[a].v, fp[t].wr[a].m)
       /\ Agree(mem[a], fp[u].wr[a].v, fp[u].wr[a].m)

\* The steps of stm_wbetl_rollback of thread t: one that drops a lock, and the
\* one that ends the loop.
RollbackDrops(t) == pc[t] = "rollback" /\ pc'[t] = "rollback" /\ loc'[t] # loc[t]
RollbackDone(t) == pc[t] = "rollback" /\ pc'[t] \notin {"rollback", "terminated"}

\* What a step of the rollback of thread t does to the lock words: a step
\* that writes a lock word writes one that the transaction owns, gives it back
\* the word it held when the transaction acquired it (free, with the version
\* captured), and leaves every other lock word alone; when the rollback is
\* done no lock word points into the write set of the transaction.
RollbackRestoresLocks(t) ==
  /\ (RollbackDrops(t) /\ locks' # locks) =>
       \E k \in LockIdx :
         /\ Owner(locks[k]) = {t}
         /\ fp[t].held[k] # NoWord
         /\ LOCK_GET_OWNED(fp[t].held[k]) = 0
         /\ \E i \in 1 .. NbEntries(t) :
              /\ tx[t].w_set[i].lock = k
              /\ LOCK_GET_TIMESTAMP(fp[t].held[k]) = tx[t].w_set[i].version
         /\ locks' = [locks EXCEPT ![k] = fp[t].held[k]]
  /\ RollbackDone(t) =>
       /\ locks' = locks
       /\ \A k \in LockIdx : t \notin Owner(locks[k])

\* C6: lock release on rollback.  Every rollback, whatever calls it, gives
\* each lock word the transaction owns back the word it held when it was
\* acquired and changes no lock word that the transaction does not own.
C6_RollbackRestoresLocks ==
  [][\A t \in Tx : RollbackRestoresLocks(t)]_vars

\* C6 for the rollbacks of transactions that are Active when stm_rollback is
\* entered.
C6_ActiveRollbackRestoresLocks ==
  [][\A t \in Tx : IS_ACTIVE(tx[t].status) => RollbackRestoresLocks(t)]_vars

\* A rollback of a transaction that is not Active has written a lock word
\* that an Active transaction had acquired: the lock of a write-set entry of
\* that transaction is free.
C6_LockTakenAway ==
  \E t \in Tx, u \in Tx :
    /\ t # u
    /\ pc[t] = "rollback" /\ ~IS_ACTIVE(tx[t].status)
    /\ pc[u] = "body" /\ IS_ACTIVE(tx[u].status)
    /\ \E i \in 1 .. NbEntries(u) :
         LOCK_GET_OWNED(locks[tx[u].w_set[i].lock]) = 0

\* A transaction with an empty write set has committed having read a value
\* that is not the one committed at its `end`.
C2_StaleCommittedRead ==
  \E t \in Tx :
    /\ pc[t] = "out" /\ tx[t].status = TX_COMMITTED
    /\ done[t].kind = "ro"
    /\ ~ReadsAt(t, done[t].ts)

\* C7: write-back.  An application word changes only in a step of the publish
\* loop of a commit, which writes the value of one write-set entry to the
\* word of that entry; a commit enters the loop only when its validation has
\* passed its last read-set entry or when there was nothing to validate (an
\* empty read set, or no commit since `start`); and a transaction that has
\* entered the loop is not rolled back.  So a store changes no application
\* word and a transaction that is rolled back has changed none.
C7_WriteBack ==
  [][/\ mem' # mem =>
          \E t \in Tx :
            /\ pc[t] = "publish"
            /\ done[t].kind = "upd"
            /\ LET w == tx[t].w_set[loc[t].i]
               IN  w.mask # 0 /\ mem' = [mem EXCEPT ![w.addr] = w.value]
     /\ \A t \in Tx :
          /\ ReachesCommitPoint(t) =>
               \/ /\ pc[t] = "validate" /\ loc[t].ctx = "commit"
                  /\ loc[t].i = Len(tx[t].r_set)
                  /\ LET r == tx[t].r_set[loc[t].i]
                         l == locks[r.lock]
                     IN  IF LOCK_GET_OWNED(l) = 1
                         THEN Owner(l) = {t}
                         ELSE LOCK_GET_TIMESTAMP(l) = r.version
               \/ /\ pc[t] = "body"
                  /\ tx[t].r_set = <<>> \/ tx[t].start = CLOCK
          /\ done[t].kind = "upd" => pc'[t] # "rollback"]_vars

\* A commit has failed its validation and is rolled back: the transaction had
\* stored a value to a word, and the word does not hold it.
C7_Witness ==
  \E t \in Tx :
    /\ pc[t] = "prepare" /\ tx[t].status = TX_ABORTED
    /\ loc[t].ret = "commit"
    /\ \E i \in 1 .. NbEntries(t) :
         LET w == tx[t].w_set[i]
         IN  w.mask # 0 /\ mem[w.addr] # w.value

\* C8 as stated: the clock never goes down.
C8_ClockMonotonic == [][CLOCK' >= CLOCK]_vars

\* C8, amended: the clock never goes down except in the roll-over, the action
\* of the quiescence barrier, which sets it to 0 together with every lock
\* word when it has reached VERSION_MAX and no transaction is Active.
C8_ClockMonotonicUpToRollover ==
  [][\/ CLOCK' >= CLOCK
     \/ /\ \E t \in Tx : pc[t] = "barrier_action" /\ pc'[t] = "prepare"
        /\ CLOCK >= VERSION_MAX
        /\ CLOCK' = 0
        /\ locks' = [k \in LockIdx |-> 0]
        /\ \A t \in Tx : ~IS_ACTIVE(tx[t].status)]_vars

\* The roll-over has happened: a thread holds in `start` a clock value that
\* it has read before, and the clock is below it.
C8_Witness ==
  \E t \in Tx : pc[t] \in {"prepare", "barrier_wake"} /\ tx[t].start > CLOCK

\* C9: snapshot bounds.  A transaction whose status is Active has
\* start <= end <= CLOCK.
C9_SnapshotBounds ==
  \A t \in Tx :
    IS_ACTIVE(tx[t].status) => tx[t].start <= tx[t].end /\ tx[t].end <= CLOCK

\* An Active transaction has extended its snapshot up to the clock.
C9_Witness ==
  \E t \in Tx :
    /\ IS_ACTIVE(tx[t].status) /\ pc[t] = "body"
    /\ tx[t].start < tx[t].end
    /\ tx[t].end = CLOCK

\* C10: read-set bound.  Every read-set entry of an Active transaction has a
\* version that is at most `end`, and a step that appends an entry finds the
\* lock of the entry free with the version of the entry.
C10_ReadSetBound ==
  /\ [](\A t \in Tx :
          IS_ACTIVE(tx[t].status) =>
            \A i \in 1 .. Len(tx[t].r_set) : tx[t].r_set[i].version <= tx[t].end)
  /\ [][\A t \in Tx :
          Len(tx'[t].r_set) = Len(tx[t].r_set) + 1 =>
            LET r == tx'[t].r_set[Len(tx'[t].r_set)]
                l == locks[r.lock]
            IN  /\ LOCK_GET_OWNED(l) = 0
                /\ LOCK_GET_TIMESTAMP(l) = r.version
                /\ l = LOCK_SET_TIMESTAMP(r.version)]_vars

\* An Active transaction has in its read set a version that is above its
\* `start`: the load that appended it has extended the snapshot.
C10_Witness ==
  \E t \in Tx :
    /\ IS_ACTIVE(tx[t].status)
    /\ \E i \in 1 .. Len(tx[t].r_set) :
         /\ tx[t].r_set[i].version > tx[t].start
         /\ tx[t].r_set[i].version = tx[t].end

\* The lock word l is owned and its owner pointer lies in the storage of the
\* write set of thread t.
PointsInto(t, l) ==
  /\ LOCK_GET_OWNED(l) = 1
  /\ EntriesBase(t) <= LOCK_GET_ADDR(l)
  /\ LOCK_GET_ADDR(l) < EntriesBase(t) + WSET_SLOTS * W_ENTRY_SIZE

\* C11 as stated: exclusive ownership.  A lock word that is owned is owned by
\* exactly one transaction, and its owner pointer designates an entry of that
\* transaction's write set, of index below nb_entries, whose lock field is
\* this lock.
C11_ExclusiveOwnership ==
  \A k \in LockIdx :
    LOCK_GET_OWNED(locks[k]) = 1 =>
      \E t \in Tx :
        /\ Owner(locks[k]) = {t}
        /\ tx[t].w_set[EntryIdx(t, LOCK_GET_ADDR(locks[k]))].lock = k

\* A transaction is Active, between two operations, and a lock word points
\* into the storage of its write set past nb_entries: the lock was acquired
\* by a store of an earlier transaction of the thread, which went on after
\* its rollback had returned, and no commit or rollback is going to release it.
C11_OrphanLock ==
  \E t \in Tx, k \in LockIdx :
    /\ pc[t] = "body" /\ IS_ACTIVE(tx[t].status)
    /\ PointsInto(t, locks[k])
    /\ EntryIdx(t, LOCK_GET_ADDR(locks[k])) > NbEntries(t)

\* The write-set entries of thread t whose value the commit of t has not yet
\* stored to memory.
Unpublished(t) ==
  {i \in 1 .. NbEntries(t) :
     CASE pc[t] = "publish" -> i >= loc[t].i
       [] pc[t] = "release" -> i > loc[t].i
       [] OTHER -> TRUE}

\* C12 as stated: free lock means no in-flight write.  Every unpublished
\* write-set entry of an Active transaction has its lock owned by that
\* transaction, from the store that made the entry until the commit or the
\* rollback that releases the lock.
C12_NoWriteUnderFreeLock ==
  \A t \in Tx :
    (IS_ACTIVE(tx[t].status) /\ pc[t] # "rollback") =>
      \A i \in Unpublished(t) : Owner(locks[tx[t].w_set[i].lock]) = {t}

\* An Active transaction, between two operations, holds an entry with a value
\* to publish, the lock of the entry is free, and another thread's
\* transaction is Aborted.
C12_WriteUnderFreeLock ==
  \E t \in Tx, u \in Tx :
    /\ t # u
    /\ pc[t] = "body" /\ IS_ACTIVE(tx[t].status)
    /\ tx[u].status = TX_ABORTED
    /\ \E i \in 1 .. NbEntries(t) :
         /\ tx[t].w_set[i].mask # 0
         /\ LOCK_GET_OWNED(locks[tx[t].w_set[i].lock]) = 0

\* The step in which the outermost stm_commit of thread t returns.
CommitReturns(t) ==
  /\ pc'[t] = "out"
  /\ \/ pc[t] \in {"publish", "release"}
     \/ pc[t] = "body" /\ tx'[t].status = TX_COMMITTED
     \/ pc[t] = "rollback" /\ loc[t].ret = "commit"

\* C13 as stated: commit result.  An outermost commit whose validation has
\* failed returns 0 after its rollback, with no_retry too; a commit returns 1
\* only when it has stored every value of its write set and has released its
\* locks.
C13_CommitResult ==
  [][\A t \in Tx :
       CommitReturns(t) =>
         /\ result'[t].call = "stm_commit"
         /\ (pc[t] = "rollback") => (result'[t].val = 0)
         /\ (result'[t].val = 1) =>
              /\ done'[t].kind \in {"upd", "ro"}
              /\ \A k \in LockIdx : ~PointsInto(t, locks'[k])]_vars

\* A commit has returned 1 and has set the status to Committed after its
\* validation failed and the transaction was rolled back: a value it had
\* stored is not in memory.
C13_FailedCommitReturnsTrue ==
  \E t \in Tx :
    /\ pc[t] = "out" /\ tx[t].status = TX_COMMITTED
    /\ result[t] = [call |-> "stm_commit", val |-> 1]
    /\ done[t].kind = "none"
    /\ \E i \in 1 .. NbEntries(t) :
         LET w == tx[t].w_set[i]
         IN  w.mask # 0 /\ mem[w.addr] # w.value

\* The rollback of thread t does not retry.
NoRetry(t) == tx[t].attr.no_retry \/ "NO_RETRY" \in loc[t].reason

\* C14 as stated: no_retry.  A rollback that does not retry, whether a load, a
\* store, a commit or an abort calls it, leaves the status Aborted and
\* nesting 0; when the operation has returned no lock is owned by the
\* transaction; and the status stays Aborted until the next begin.
C14_NoRetry ==
  /\ [][\A t \in Tx :
          /\ (RollbackDone(t) /\ NoRetry(t)) =>
               /\ tx'[t].status = TX_ABORTED
               /\ tx'[t].nesting = 0
          /\ (tx[t].status = TX_ABORTED /\ tx'[t].status # TX_ABORTED) =>
               pc[t] = "prepare"]_vars
  /\ [](\A t \in Tx :
          (pc[t] = "out" /\ tx[t].status = TX_ABORTED) =>
            \A k \in LockIdx : ~PointsInto(t, locks[k]))

\* An operation of a transaction that does not retry has returned after a
\* rollback, the status is Aborted, and a lock word is owned by the
\* transaction.
C14_AbortedHoldsLock ==
  \E t \in Tx, k \in LockIdx :
    /\ pc[t] = "out" /\ tx[t].status = TX_ABORTED /\ tx[t].attr.no_retry
    /\ PointsInto(t, locks[k])
    /\ EntryIdx(t, LOCK_GET_ADDR(locks[k])) <= NbEntries(t)

\* The steps of a begin and of a commit inside a transaction of thread t.
NestedBegin(t) ==
  pc[t] = "body" /\ tx[t].nesting > 0 /\ tx'[t].nesting = tx[t].nesting + 1
NestedCommit(t) ==
  pc[t] = "body" /\ tx'[t].nesting > 0 /\ tx'[t].nesting = tx[t].nesting - 1

\* C14 for the rollbacks that a load, an abort or a store that has met a
\* conflict calls on an Active transaction: the operation returns with the
\* status Aborted, nesting 0 and no lock owned by the transaction.
C14_NoRetryOutsideCommit ==
  [][\A t \in Tx :
       (RollbackDone(t) /\ NoRetry(t) /\ IS_ACTIVE(tx[t].status)
          /\ loc[t].ret \in {"load", "abort", "store"}) =>
            /\ pc'[t] = "out"
            /\ tx'[t].status = TX_ABORTED
            /\ tx'[t].nesting = 0
            /\ \A k \in LockIdx : ~PointsInto(t, locks'[k])]_vars

\* C15: flat nesting.  A begin inside a transaction adds 1 to nesting, returns
\* NULL and changes nothing else of the descriptor; a commit that leaves
\* nesting above 0 subtracts 1, returns 1 and changes neither the clock nor a
\* lock word nor an application word; the publish loop runs only in the commit
\* that has brought nesting to 0; and a rollback that retries, at whatever
\* depth, releases every lock of the transaction and sets nesting to 1.
C15_FlatNesting ==
  [][\A t \in Tx :
       /\ NestedBegin(t) =>
            /\ result'[t] = [call |-> "stm_start", val |-> NULL]
            /\ tx' = [tx EXCEPT ![t].nesting = @ + 1]
            /\ UNCHANGED <<locks, mem, CLOCK, pc, loc>>
       /\ NestedCommit(t) =>
            /\ result'[t] = [call |-> "stm_commit", val |-> 1]
            /\ tx' = [tx EXCEPT ![t].nesting = @ - 1]
            /\ UNCHANGED <<locks, mem, CLOCK, pc, loc>>
       /\ pc[t] \in {"publish", "release"} => tx[t].nesting = 0
       /\ (RollbackDone(t) /\ ~NoRetry(t)) =>
            /\ pc'[t] = "prepare"
            /\ tx'[t].nesting = 1
            /\ tx'[t].status = TX_ABORTED
            /\ \A k \in LockIdx : ~PointsInto(t, locks'[k])]_vars

\* A transaction has been rolled back inside a nested begin (the last call of
\* stm_start returned NULL) and is about to retry with nesting 1.
C15_Witness ==
  \E t \in Tx :
    /\ pc[t] = "prepare" /\ tx[t].status = TX_ABORTED
    /\ result[t] = [call |-> "stm_start", val |-> NULL]
    /\ tx[t].nesting = 1

\* The step of stm_commit in which an outermost commit with a write set takes
\* its timestamp, and the positions of a commit after it.
TakesTimestamp(t) == pc[t] = "body" /\ pc'[t] \in {"validate", "publish"}
InCommit(t) ==
  \/ pc[t] \in {"publish", "release"}
  \/ pc[t] = "validate" /\ loc[t].ctx = "commit"

\* C16: commit timestamps.  An outermost commit with a write set that is not
\* empty adds 1 to the clock once and takes the new value as its timestamp;
\* nothing else changes the clock but the roll-over; two commits never hold
\* the same timestamp; a commit with an empty write set changes neither the
\* clock nor a lock word nor an application word; and a commit that has
\* stored its values returns 1, with each word whose lock still bears the
\* timestamp holding the value stored.
C16_CommitTimestamps ==
  /\ [][/\ \A t \in Tx :
             /\ TakesTimestamp(t) =>
                  /\ NbEntries(t) > 0
                  /\ CLOCK' = CLOCK + 1
                  /\ loc'[t].t = CLOCK + 1
             /\ (pc[t] = "body" /\ pc'[t] = "out" /\ tx'[t].status = TX_COMMITTED) =>
                  /\ NbEntries(t) = 0
                  /\ UNCHANGED <<CLOCK, locks, mem>>
                  /\ result'[t] = [call |-> "stm_commit", val |-> 1]
             /\ (pc[t] \in {"publish", "release"} /\ pc'[t] = "out") =>
                  /\ result'[t] = [call |-> "stm_commit", val |-> 1]
                  /\ CLOCK >= loc[t].t
                  /\ \A i \in 1 .. NbEntries(t) :
                       LET w == tx[t].w_set[i]
                       IN  (w.mask # 0 /\ locks'[w.lock] = CommitLockWord(loc[t].t))
                             => mem'[w.addr] = w.value
        /\ CLOCK' # CLOCK =>
             \/ \E t \in Tx : TakesTimestamp(t)
             \/ \E t \in Tx : pc[t] = "barrier_action"]_vars
  /\ [](\A t \in Tx, u \in Tx :
          /\ (t # u /\ InCommit(t) /\ InCommit(u)) => loc[t].t # loc[u].t
          /\ (t # u /\ done[t].kind = "upd" /\ done[u].kind = "upd")
               => done[t].ts # done[u].ts)

\* Two transactions have committed their stores, one with timestamp 1, the
\* other with timestamp 2.
C16_Witness ==
  /\ CLOCK = 2
  /\ \A t \in Tx : pc[t] = "out" /\ tx[t].status = TX_COMMITTED /\ done[t].kind = "upd"
  /\ {done[t].ts : t \in Tx} = {1, 2}

\* Every thread has committed its transaction.
S3Done == \A t \in Tx : pc[t] = "out" /\ tx[t].status = TX_COMMITTED

\* The thread whose commit has the largest timestamp.
LastCommitter == CHOOSE t \in Tx : \A u \in Tx : done[u].ts <= done[t].ts

\* C17: progress and outcome of S3.  Under fair scheduling every transaction
\* eventually commits; a transaction reaches its commit point once and, once
\* Committed, stays so; and when all have committed x holds one of the values
\* stored, the one of the transaction with the largest commit timestamp.
C17_S3Progress ==
  /\ <>S3Done
  /\ [][\A t \in Tx :
          /\ done[t].kind = "upd" => done'[t] = done[t]
          /\ tx[t].status = TX_COMMITTED =>
               (tx'[t].status = TX_COMMITTED /\ pc'[t] = "out")]_vars
  /\ [](S3Done =>
          /\ \A t \in Tx : done[t].kind = "upd"
          /\ mem[0] \in {S3Store(t).value : t \in Tx}
          /\ mem[0] = S3Store(LastCommitter).value)

\* S3 has run to its end with thread 1 the last to commit: the clock has
\* advanced once for each commit and x holds the value thread 1 stored.
C17_Witness ==
  /\ S3Done
  /\ CLOCK = NThreads
  /\ LastCommitter = 1
  /\ mem[0] = S3Store(1).value

\* No commit since the last roll-over has stored to a word of the lock of a.
LockUntouched(a) ==
  \A c \in 1 .. MaxTs, b \in Addr : GET_LOCK(b) = GET_LOCK(a) => hist[c][b].m = 0

\* Scenario S4 of the specification, x being word 0 and y word 2: thread 1
\* has loaded x, under the version x had from the start, and nothing else,
\* and has stored nothing; since then thread 2 has committed a store to x;
\* no commit has touched the lock of y; and thread 1 is in its load of y.
S4SecondLoad ==
  /\ GET_LOCK(0) # GET_LOCK(2)
  /\ pc[1] \in {"read_value", "read_lock2"} /\ loc[1].addr = 2
  /\ IS_ACTIVE(tx[1].status)
  /\ tx[1].r_set = <<[lock |-> GET_LOCK(0), version |-> 0]>>
  /\ NbEntries(1) = 0
  /\ fp[1].rd[0].m = FULL_MASK /\ fp[1].rd[0].v = base[0]
  /\ pc[2] = "out" /\ tx[2].status = TX_COMMITTED
  /\ done[2].kind = "upd" /\ fp[2].wr[0].m # 0
  /\ LockUntouched(2)

\* Thread 1 has committed with an empty write set after exactly the loads of
\* x and of y, both under version 0.
S4Committed ==
  /\ GET_LOCK(0) # GET_LOCK(2)
  /\ pc[1] = "out" /\ tx[1].status = TX_COMMITTED /\ done[1].kind = "ro"
  /\ tx[1].r_set = <<[lock |-> GET_LOCK(0), version |-> 0],
                     [lock |-> GET_LOCK(2), version |-> 0]>>

Bucket(t, k) == {i \in 1 .. NbEntries(t) : tx[t].w_set[i].lock = k}
Following(t, k, i) == {j \in Bucket(t, k) : j > i}

\* The write set of thread t is made of one chain for each lock: one entry
\* for each address, the entries of a lock with one version, each pointing at
\* the next one inserted and the last at none, and the lock word, while the
\* transaction owns it, pointing at the first.
Chained(t) ==
  /\ \A i, j \in 1 .. NbEntries(t) :
       i # j => tx[t].w_set[i].addr # tx[t].w_set[j].addr
  /\ \A i \in 1 .. NbEntries(t) :
       LET w == tx[t].w_set[i]
           after == Following(t, w.lock, i)
       IN  /\ w.lock = GET_LOCK(w.addr)
           /\ \A j \in Bucket(t, w.lock) : tx[t].w_set[j].version = w.version
           /\ w.next = IF after = {} THEN NULL
                       ELSE EntryPtr(t, CHOOSE j \in after : \A m \in after : j <= m)
           /\ (Owner(locks[w.lock]) = {t} /\ \A j \in Bucket(t, w.lock) : j >= i)
                => locks[w.lock] = LOCK_SET_ADDR_WRITE(EntryPtr(t, i))

\* The step is one of thread t (not the end of the process in a failed
\* assertion of another thread).
StepOf(t) == pc'[t] # "terminated" /\ (pc'[t] # pc[t] \/ loc'[t] # loc[t])

\* A step of the commit of thread t writes a lock word.
CommitWritesLock(t) ==
  pc[t] \in {"publish", "release"} /\ StepOf(t) /\ locks' # locks

\* C19: stripe aliasing.  The write set of an Active transaction holds one
\* entry for each address stored to, chained lock by lock in the order of
\* insertion from the entry the lock word points to, with one version for a
\* lock and one entry without a next one; the commit stores the value of
\* every entry with a mask to memory, and writes a lock word only at the last
\* entry of the lock, when the values of all entries of the lock are stored,
\* to the version t of the commit.
C19_StripeAliasing ==
  /\ [](\A t \in Tx : IS_ACTIVE(tx[t].status) => Chained(t))
  /\ [][\A t \in Tx :
          /\ CommitWritesLock(t) =>
               LET w == tx[t].w_set[loc[t].i]
               IN  /\ w.next = NULL
                   /\ Following(t, w.lock, loc[t].i) = {}
                   /\ locks' = [locks EXCEPT ![w.lock] = LOCK_SET_TIMESTAMP(loc[t].t)]
                   /\ \A j \in Bucket(t, w.lock) :
                        tx[t].w_set[j].mask # 0 =>
                          mem'[tx[t].w_set[j].addr] = tx[t].w_set[j].value
          /\ (pc[t] = "publish" /\ StepOf(t) /\ tx[t].w_set[loc[t].i].mask # 0) =>
               mem' = [mem EXCEPT ![tx[t].w_set[loc[t].i].addr] =
                                    tx[t].w_set[loc[t].i].value]
          /\ (pc[t] = "publish" /\ pc'[t] = "publish" /\ StepOf(t)) =>
               loc'[t].i = loc[t].i + 1]_vars

\* A commit has stored the values of two entries of one lock, the first
\* pointing at the second, and is about to release the lock, which still
\* points at the first.
C19_Witness ==
  \E t \in Tx :
    /\ pc[t] = "release" /\ loc[t].i = 2
    /\ tx[t].w_set[1].lock = tx[t].w_set[2].lock
    /\ tx[t].w_set[1].addr # tx[t].w_set[2].addr
    /\ tx[t].w_set[1].next = EntryPtr(t, 2)
    /\ tx[t].w_set[2].next = NULL
    /\ locks[tx[t].w_set[1].lock] = LOCK_SET_ADDR_WRITE(EntryPtr(t, 1))
    /\ \A i \in {1, 2} : tx[t].w_set[i].mask # 0
                           /\ mem[tx[t].w_set[i].addr] = tx[t].w_set[i].value

\* No thread other than t is in a transaction.
Alone(t) ==
  \A u \in Tx \ {t} : pc[u] \in {"out", "exited"} /\ ~IS_ACTIVE(tx[u].status)

StoreMeetsLock(t) ==
  /\ pc[t] \in {"body", "write_lock"}
  /\ \/ pc'[t] = "write_cas"
     \/ pc'[t] = "rollback" /\ loc'[t].ret \in {"store", "write_free"}

\* What such a store does, given the lock word l of lock k: the reasons of its
\* rollback, none when it goes on to the compare-and-swap.
StoreOutcome(t, k, l) ==
  IF LOCK_GET_OWNED(l) = 1 THEN {"WW_CONFLICT"}
  ELSE IF LOCK_GET_TIMESTAMP(l) > tx[t].end /\ stm_has_read(t, k) THEN {"VAL_WRITE"}
  ELSE IF NbEntries(t) = tx[t].w_size THEN {"EXTEND_WS"}
  ELSE {}

\* The step is one of the commit of thread t after its commit point.
CommitStores(t) == pc[t] \in {"publish", "release"} /\ StepOf(t)

\* C21: store with mask 0.  A store meets a lock that its transaction does
\* not own with the same outcome whatever its mask (conflict, stale read, full
\* write set, or the compare-and-swap that makes the lock point at the new
\* entry), and changes no application word; the entry of a store with mask 0
\* keeps mask 0; the commit changes no word to which the transaction has
\* stored under mask 0 only, and at an entry with mask 0 that is the last of
\* its lock it sets the lock word to the commit timestamp.
C21_MaskZeroStore ==
  [][\A t \in Tx :
       /\ StoreMeetsLock(t) =>
            LET k == GET_LOCK(loc'[t].addr)
                reason == StoreOutcome(t, k, locks[k])
            IN  /\ UNCHANGED <<locks, mem>>
                /\ IF reason = {}
                   THEN pc'[t] = "write_cas" /\ loc'[t].l = locks[k]
                   ELSE pc'[t] = "rollback" /\ loc'[t].reason = reason
       /\ (pc[t] = "write_cas" /\ pc'[t] = "do_write") =>
            /\ locks' = [locks EXCEPT ![GET_LOCK(loc[t].addr)] =
                                        LOCK_SET_ADDR_WRITE(EntryPtr(t, NbEntries(t) + 1))]
            /\ mem' = mem
       /\ (pc[t] = "do_write" /\ StepOf(t)) =>
            /\ mem' = mem
            /\ tx'[t].w_set[NbEntries(t) + 1].mask = loc[t].mask
            /\ tx'[t].w_set[NbEntries(t) + 1].addr = loc[t].addr
       /\ CommitStores(t) =>
            \A a \in Addr : fp[t].wr[a].m = 0 => mem'[a] = mem[a]
       /\ (pc[t] = "publish" /\ StepOf(t) /\ tx[t].w_set[loc[t].i].mask = 0) =>
            LET w == tx[t].w_set[loc[t].i]
            IN  /\ mem' = mem
                /\ locks' = IF w.next = NULL
                            THEN [locks EXCEPT ![w.lock] = LOCK_SET_TIMESTAMP(loc[t].t)]
                            ELSE locks]_vars

\* A transaction has committed with one entry, of mask 0, for a word that an
\* earlier commit had set to a value other than 0: the word holds that value
\* and its lock is free with the timestamp of the commit.
C21_Witness ==
  \E t \in Tx :
    /\ pc[t] = "out" /\ tx[t].status = TX_COMMITTED /\ done[t].kind = "upd"
    /\ NbEntries(t) = 1
    /\ tx[t].w_set[1].mask = 0
    /\ mem[tx[t].w_set[1].addr] # 0
    /\ mem[tx[t].w_set[1].addr] = SnapAt(done[t].ts - 1)[tx[t].w_set[1].addr]
    /\ locks[tx[t].w_set[1].lock] = LOCK_SET_TIMESTAMP(done[t].ts)

\* Thread t, in a load, has read the lock word, then the application word,
\* and the lock word is still the one it has read: free, with the same
\* version.
SandwichHolds(t) ==
  /\ pc[t] = "read_lock2"
  /\ loc[t].l = locks[GET_LOCK(loc[t].addr)]

\* C22 as stated: value/version pairing.  Whenever a load finds the lock word
\* free and the same before and after it has read the application word, the
\* value it has read is the one the word held when that version was
\* installed: what the commits up to that timestamp have left in it.
C22_ValueVersionPairing ==
  \A t \in Tx :
    SandwichHolds(t) =>
      loc[t].value = SnapAt(LOCK_GET_TIMESTAMP(loc[t].l))[loc[t].addr]

\* A load has read, between two reads of a lock word that is free with one
\* version, a value that the commit of another transaction has stored while
\* it did not hold the lock: the commit is still in its loop, its timestamp is
\* not the version of the lock word, and the word held another value when
\* that version was installed.
C22_ValueOfAnotherVersion ==
  \E t \in Tx, u \in Tx :
    /\ t # u
    /\ SandwichHolds(t)
    /\ pc[u] \in {"publish", "release"}
    /\ done[u].ts # LOCK_GET_TIMESTAMP(loc[t].l)
    /\ fp[u].wr[loc[t].addr].m # 0
    /\ loc[t].value = SnapAt(done[u].ts)[loc[t].addr]
    /\ loc[t].value # SnapAt(LOCK_GET_TIMESTAMP(loc[t].l))[loc[t].addr]

\* The lock word of lock k points at an entry that the write set of thread t
\* holds for that lock.
HeldBy(t, k) ==
  /\ LOCK_GET_OWNED(locks[k]) = 1
  /\ \E i \in 1 .. NbEntries(t) :
       /\ tx[t].w_set[i].lock = k
       /\ locks[k] = LOCK_SET_ADDR_WRITE(EntryPtr(t, i))

\* The owner pointer of the lock word l designates an entry of the write set
\* of thread t.
HeldByWord(t, l) ==
  \E i \in 1 .. NbEntries(t) : l = LOCK_SET_ADDR_WRITE(EntryPtr(t, i))

\* Read-set entry r of thread t is still good: its lock is free with the
\* version recorded, or the transaction itself holds it.
StillValid(t, r) ==
  \/ LOCK_GET_OWNED(locks[r.lock]) = 0 /\ LOCK_GET_TIMESTAMP(locks[r.lock]) = r.version
  \/ HeldBy(t, r.lock)

\* The steps of stm_wbetl_extend of thread t: the read of the clock, and the
\* look at one read-set entry.
ExtendReadsClock(t) == pc[t] = "extend" /\ StepOf(t)
ExtendValidates(t) == pc[t] = "validate" /\ loc[t].ctx = "extend" /\ StepOf(t)

\* C23: snapshot extension.  The extension reads the clock before it looks at
\* the read set; it goes through the read set entry by entry and succeeds
\* exactly when it has found every entry good (lock free with the version
\* recorded, or held by the transaction itself), and then sets `end` to the
\* clock value it has read; it fails at the first entry that is not good;
\* and succeeding or failing it leaves `start`, the read set and every lock
\* word as they are, and `end` too when it fails.
C23_SnapshotExtension ==
  [][\A t \in Tx :
       /\ ExtendReadsClock(t) =>
            /\ UNCHANGED <<locks, mem, CLOCK>>
            /\ tx'[t].start = tx[t].start /\ tx'[t].r_set = tx[t].r_set
            /\ IF tx[t].r_set = <<>>
               THEN pc'[t] = "read_lock3" /\ tx'[t].end = CLOCK
               ELSE pc'[t] = "validate" /\ loc'[t].now = CLOCK /\ loc'[t].i = 1
                    /\ tx'[t].end = tx[t].end
       /\ ExtendValidates(t) =>
            LET i == loc[t].i
                n == Len(tx[t].r_set)
                good == StillValid(t, tx[t].r_set[i])
            IN  /\ UNCHANGED <<locks, mem, CLOCK>>
                /\ tx'[t].start = tx[t].start /\ tx'[t].r_set = tx[t].r_set
                /\ (pc'[t] = "read_lock3") <=> (good /\ i = n)
                /\ (pc'[t] = "read_lock3") =>
                     /\ tx'[t].end = loc[t].now
                     /\ loc[t].now <= CLOCK
                /\ (pc'[t] = "rollback") <=> ~good
                /\ (pc'[t] = "rollback") =>
                     /\ tx'[t] = tx[t]
                     /\ loc'[t].reason = {"VAL_READ"}
                /\ (good /\ i < n) =>
                     pc'[t] = "validate" /\ loc'[t].i = i + 1 /\ tx'[t] = tx[t]]_vars

\* An extension has found good a read set whose entry is for a lock that the
\* transaction has acquired since, and has moved `end` from `start` up to the
\* clock value it had read.
C23_Witness ==
  \E t \in Tx :
    /\ pc[t] = "read_lock3" /\ loc[t].ctx = "extend"
    /\ Len(tx[t].r_set) > 0
    /\ HeldBy(t, tx[t].r_set[1].lock)
    /\ tx[t].end = loc[t].now
    /\ tx[t].start < tx[t].end

\* The step in which the commit of thread t, having taken its timestamp,
\* goes to the validation of its read set, or past it.
CommitValidates(t) == pc[t] = "body" /\ pc'[t] = "validate"
CommitSkipsValidation(t) == pc[t] = "body" /\ pc'[t] = "publish"

\* The steps of the validation of the commit of thread t.
CommitLooksAtEntry(t) == pc[t] = "validate" /\ loc[t].ctx = "commit" /\ StepOf(t)

\* The steps of the rollback of thread t after its commit has failed to
\* validate.
CommitRollsBack(t) == pc[t] = "rollback" /\ loc[t].ret = "commit" /\ StepOf(t)

OwnedByOther(t, l) == LOCK_GET_OWNED(l) = 1 /\ ~HeldByWord(t, l)

\* The rollback of thread t is the one of a store that has met the lock of
\* another transaction.
InConflictRollback(t) ==
  pc[t] = "rollback" /\ loc[t].ret = "store" /\ loc[t].reason = {"WW_CONFLICT"}

\* C25 as stated: write-write conflict.  A store that reads a lock word owned by
\* another transaction goes to the rollback with reason WW_CONFLICT in that
\* very step: it does not read the lock again, and it goes neither to the
\* compare-and-swap nor to the write set; the compare-and-swap writes a lock
\* word only when the word is free; and the step that finds the conflict and
\* the steps of the rollback after it leave that lock word, the write sets of
\* the other transactions and memory as they are.
C25_WriteWriteConflict ==
  [][\A t \in Tx :
       /\ (pc[t] = "write_lock" /\ StepOf(t)
             /\ OwnedByOther(t, locks[GET_LOCK(loc[t].addr)])) =>
            /\ pc'[t] = "rollback"
            /\ loc'[t].reason = {"WW_CONFLICT"}
       /\ (pc[t] \in {"body", "write_lock"} /\ StepOf(t)
             /\ pc'[t] \in {"write_cas", "do_write", "write_merge", "write_lock"}) =>
            ~OwnedByOther(t, locks[GET_LOCK(loc'[t].addr)])
       /\ (pc[t] \in {"body", "write_lock"} /\ StepOf(t)
             /\ pc'[t] = "rollback" /\ loc'[t].ret = "store") =>
            LET l == locks[GET_LOCK(loc'[t].addr)]
            IN  /\ loc'[t].reason = IF LOCK_GET_OWNED(l) = 1
                                    THEN {"WW_CONFLICT"} ELSE {"VAL_WRITE"}
                /\ LOCK_GET_OWNED(l) = 1 => OwnedByOther(t, l)
                /\ UNCHANGED <<locks, mem, tx>>
       /\ (pc[t] = "write_cas" /\ StepOf(t) /\ locks' # locks) =>
            LOCK_GET_OWNED(locks[GET_LOCK(loc[t].addr)]) = 0
       /\ (InConflictRollback(t) /\ StepOf(t)) =>
            /\ locks'[GET_LOCK(loc[t].addr)] = locks[GET_LOCK(loc[t].addr)]
            /\ mem' = mem
            /\ \A u \in Tx \ {t} : tx'[u] = tx[u]]_vars

\* A store of an Active transaction has met a lock that another Active
\* transaction has acquired, and its rollback has written that lock word:
\* the lock is free while the transaction that acquired it goes on.
C25_ConflictFreesLock ==
  \E t \in Tx, u \in Tx :
    /\ t # u
    /\ InConflictRollback(t) /\ IS_ACTIVE(tx[t].status)
    /\ loc[t].i > 1
    /\ IS_ACTIVE(tx[u].status) /\ pc[u] \in {"do_write", "body"}
    /\ fp[u].held[GET_LOCK(loc[t].addr)] # NoWord
    /\ LOCK_GET_OWNED(locks[GET_LOCK(loc[t].addr)]) = 0

\* The lock word that the load of thread t which returns in this step has
\* read last.
LockWordOfLoad(t) ==
  IF pc[t] = "read_own" THEN loc[t].l ELSE locks[GET_LOCK(fp'[t].last.addr)]

\* The step in which a load of thread t goes to the rollback.
LoadRollsBack(t) ==
  /\ pc[t] \in {"body", "read_lock2", "read_lock3"}
  /\ pc'[t] = "rollback" /\ loc'[t].ret = "load"
  /\ loc'[t].reason = {"RW_CONFLICT"}

\* C26: read-write conflict.  A load that reads a lock word owned by another
\* transaction returns no value: it goes to the rollback with reason
\* RW_CONFLICT in that step and leaves the read set as it is; no load returns
\* a value when the lock word it has read last is owned by another
\* transaction; and a load goes to the rollback with that reason only then.
C26_ReadWriteConflict ==
  [][\A t \in Tx :
       /\ (pc[t] \in {"read_lock2", "read_lock3"} /\ StepOf(t)
             /\ OwnedByOther(t, locks[GET_LOCK(loc[t].addr)])) =>
            /\ pc'[t] = "rollback"
            /\ loc'[t].reason = {"RW_CONFLICT"}
            /\ tx' = tx /\ fp' = fp
       /\ LoadReturns(t) => ~OwnedByOther(t, LockWordOfLoad(t))
       /\ (pc[t] = "body" /\ pc'[t] \in {"read_value", "read_own"}) =>
            ~OwnedByOther(t, locks[GET_LOCK(loc'[t].addr)])
       /\ Len(tx'[t].r_set) > Len(tx[t].r_set) =>
            LOCK_GET_OWNED(locks[GET_LOCK(loc[t].addr)]) = 0
       /\ LoadRollsBack(t) =>
            /\ OwnedByOther(t, locks[GET_LOCK(loc'[t].addr)])
            /\ UNCHANGED <<tx, fp, locks, mem>>]_vars

\* A load of an Active transaction that has a read set has met a lock held by
\* another Active transaction and is in its rollback, having returned nothing.
C26_Witness ==
  \E t \in Tx, u \in Tx :
    /\ t # u
    /\ pc[t] = "rollback" /\ loc[t].ret = "load" /\ loc[t].reason = {"RW_CONFLICT"}
    /\ IS_ACTIVE(tx[t].status) /\ Len(tx[t].r_set) > 0
    /\ GET_LOCK(loc[t].addr) \notin {tx[t].r_set[i].lock : i \in 1 .. Len(tx[t].r_set)}
    /\ ~fp[t].last.on \/ fp[t].last.addr # loc[t].addr
    /\ IS_ACTIVE(tx[u].status) /\ HeldBy(u, GET_LOCK(loc[t].addr))

\* The read-set entries of thread t for lock k.
ReadsOf(t, k) == {i \in 1 .. Len(tx[t].r_set) : tx[t].r_set[i].lock = k}

\* The lock word l of lock k is free with a version above `end` of thread t,
\* whose read set has an entry for the lock.
StaleForWrite(t, k, l) ==
  /\ LOCK_GET_OWNED(l) = 0
  /\ LOCK_GET_TIMESTAMP(l) > tx[t].end
  /\ ReadsOf(t, k) # {}

\* C27: write after stale read.  A store that finds the lock free with a
\* version above `end` while the read set holds an entry for the lock goes to
\* the rollback with reason VAL_WRITE, and only such a store does; it does
\* not go to the compare-and-swap, and no compare-and-swap acquires a lock
\* on a lock word read in that condition; so that, whenever an Active
\* transaction holds a lock that is in its read set, the entries of its write
\* set for the lock bear the version that every read-set entry for the lock
\* records.
C27_WriteAfterStaleRead ==
  /\ [][\A t \in Tx :
          /\ (pc[t] = "write_lock" /\ StepOf(t)
                /\ StaleForWrite(t, GET_LOCK(loc[t].addr), locks[GET_LOCK(loc[t].addr)])) =>
               /\ pc'[t] = "rollback"
               /\ loc'[t].reason = {"VAL_WRITE"}
               /\ UNCHANGED <<locks, mem, tx>>
          /\ (pc[t] \in {"body", "write_lock"} /\ pc'[t] = "write_cas") =>
               ~StaleForWrite(t, GET_LOCK(loc'[t].addr), locks[GET_LOCK(loc'[t].addr)])
          /\ (pc[t] \in {"body", "write_lock"} /\ pc'[t] = "rollback"
                /\ loc'[t].reason = {"VAL_WRITE"}) =>
               /\ StaleForWrite(t, GET_LOCK(loc'[t].addr), locks[GET_LOCK(loc'[t].addr)])
               /\ UNCHANGED <<locks, mem, tx>>
          /\ (pc[t] = "write_cas" /\ StepOf(t) /\ locks' # locks) =>
               ~StaleForWrite(t, GET_LOCK(loc[t].addr), locks[GET_LOCK(loc[t].addr)])]_vars
  /\ [](\A t \in Tx :
          IS_ACTIVE(tx[t].status) =>
            \A i \in 1 .. NbEntries(t) :
              LET w == tx[t].w_set[i]
              IN  HeldBy(t, w.lock) =>
                    \A j \in ReadsOf(t, w.lock) : tx[t].r_set[j].version = w.version)

\* A store of an Active transaction is in its rollback with reason VAL_WRITE:
\* the lock of the word is free, a commit has given it a version above `end`
\* since the transaction has read under it, and nothing points at the write
\* set of the transaction.
C27_Witness ==
  \E t \in Tx :
    /\ pc[t] = "rollback" /\ loc[t].ret = "store" /\ loc[t].reason = {"VAL_WRITE"}
    /\ IS_ACTIVE(tx[t].status) /\ NbEntries(t) = 0
    /\ StaleForWrite(t, GET_LOCK(loc[t].addr), locks[GET_LOCK(loc[t].addr)])
    /\ \A j \in ReadsOf(t, GET_LOCK(loc[t].addr)) :
         tx[t].r_set[j].version < LOCK_GET_TIMESTAMP(locks[GET_LOCK(loc[t].addr)])

\* The rollback of thread t is the one of a store that has found the write
\* set full.
InGrowthRollback(t) == pc[t] = "rollback" /\ loc[t].reason = {"EXTEND_WS"}

InBarrier(t) == pc[t] \in {"barrier", "barrier_wait", "barrier_wake", "barrier_action"}

\* C29: roll-over at begin.  A begin or the prepare of a retry that reads a
\* clock value of VERSION_MAX or more does not make the transaction Active:
\* the thread enters the quiescence barrier, stays not Active in it, and
\* leaves it only to read the clock again; a transaction becomes Active only
\* in a prepare that has read a clock value below VERSION_MAX, with
\* start == end == that value, so that `start` of an Active transaction is
\* below VERSION_MAX; and the step of the roll-over leaves the clock 0 and
\* every lock word 0 (free, version 0) and changes no application word.
C29_RolloverAtBegin ==
  /\ [][\A t \in Tx :
          /\ (pc[t] = "prepare" /\ StepOf(t) /\ CLOCK >= VERSION_MAX) =>
               /\ pc'[t] = "barrier"
               /\ tx'[t].status = tx[t].status
          /\ (InBarrier(t) /\ StepOf(t)) =>
               /\ pc'[t] \in {"barrier_wait", "barrier_wake", "barrier_action", "prepare"}
               /\ tx'[t] = tx[t]
          /\ (~IS_ACTIVE(tx[t].status) /\ IS_ACTIVE(tx'[t].status)) =>
               /\ pc[t] = "prepare" /\ pc'[t] = "body"
               /\ CLOCK < VERSION_MAX
               /\ tx'[t].start = CLOCK /\ tx'[t].end = CLOCK
          /\ (pc[t] = "barrier_action" /\ StepOf(t)) =>
               /\ CLOCK' = 0
               /\ \A k \in LockIdx :
                    LOCK_GET_OWNED(locks'[k]) = 0 /\ LOCK_GET_TIMESTAMP(locks'[k]) = 0
                                                  /\ locks'[k] = 0
               /\ mem' = mem]_vars
  /\ [](\A t \in Tx :
          /\ IS_ACTIVE(tx[t].status) => tx[t].start < VERSION_MAX
          /\ InBarrier(t) => ~IS_ACTIVE(tx[t].status))

\* The prepare of a retry has read a clock value of VERSION_MAX, the thread
\* has been through the barrier and the roll-over has run: the transaction is
\* Aborted, about to read the clock again; the clock and the lock words are 0
\* and the words hold what the commits have stored.
C29_Witness ==
  \E t \in Tx :
    /\ pc[t] = "prepare" /\ tx[t].status = TX_ABORTED
    /\ tx[t].start >= VERSION_MAX
    /\ CLOCK = 0
    /\ locks = [k \in LockIdx |-> 0]
    /\ mem # [a \in Addr |-> 0]

\* Thread t takes, in this step, the turn of the barrier's loop that finds
\* the count of threads at 0: it will run the action.
GetsAction(t) == pc[t] # "barrier_action" /\ pc'[t] = "barrier_action"

\* Thread t runs the action of the barrier in this step.
RunsAction(t) == pc[t] = "barrier_action" /\ StepOf(t)

\* Thread t leaves stm_quiesce_barrier in this step.
LeavesBarrier(t) == InBarrier(t) /\ pc'[t] \notin {"terminated"} /\ ~InBarrier(t)'

\* Thread t leaves the registered threads in this step.
ExitsThread(t) == pc[t] = "out" /\ pc'[t] = "exited"

C31_RolloverAtQuiescence ==
  [][\A t \in Tx :
       /\ RunsAction(t) =>
            /\ \A u \in Tx : ~IS_ACTIVE(tx[u].status)
            /\ \A k \in LockIdx : LOCK_GET_OWNED(locks[k]) = 0
            /\ \A u \in Tx : InBarrier(u) \/ pc[u] = "exited"
            /\ CLOCK' = 0
            /\ \A k \in LockIdx : locks'[k] = 0
       /\ LeavesBarrier(t) => pc'[t] = "prepare"
       /\ (pc[t] = "prepare" /\ StepOf(t)) =>
            tx'[t].start = CLOCK /\ tx'[t].end = CLOCK
       /\ CLOCK' < CLOCK => \E u \in Tx : RunsAction(u)]_vars

\* The roll-over is about to run, the count of threads at 0 and no
\* transaction Active, while a lock word is owned: it points into the write
\* set of a transaction that is not Active, whose store has taken the lock
\* after the rollback of the transaction had returned.
C31_RolloverErasesOwnership ==
  \E t \in Tx :
    /\ pc[t] = "barrier_action" /\ threads_nb = 0 /\ quiesce # 0
    /\ \A u \in Tx : ~IS_ACTIVE(tx[u].status)
    /\ \E k \in LockIdx, u \in Tx :
         LOCK_GET_OWNED(locks[k]) = 1 /\ PointsInto(u, locks[k])

\* C32: liveness of the barrier.  With every thread that can take a step
\* eventually taking one, so that every thread outside the barrier
\* eventually arrives at it by a begin or leaves, an episode of the barrier
\* ends: the flag, once set, is eventually cleared by the action, and every
\* thread that is in the barrier, waiting or woken by the signal of an exit
\* or by the broadcast of the action, eventually leaves it for its prepare.
C32_BarrierLiveness ==
  /\ (quiesce # 0) ~> (quiesce = 0)
  /\ \A t \in Tx : InBarrier(t) ~> (pc[t] = "prepare")

\* Every thread has been through the barrier in one episode and has left
\* it: each has read a clock of VERSION_MAX in its prepare, the one that
\* arrived first has waited, the roll-over has run once, and each is about
\* to read the clock again.
C32_Witness ==
  /\ CLOCK = 0 /\ quiesce = 0 /\ threads_nb = NThreads
  /\ \A t \in Tx : pc[t] = "prepare" /\ tx[t].start >= VERSION_MAX

\* The threads that have a descriptor in the list _tinystm.threads.
Registered == {t \in Tx : pc[t] \notin {"exited", "terminated"}}

\* Thread t returns from stm_init_thread in this step.
InitThreadStep(t) ==
  /\ result'[t].call = "stm_init_thread"
  /\ result'[t] # result[t] \/ (pc[t] = "exited" /\ pc'[t] = "out")

\* The threads in stm_quiesce_barrier between its threads_nb-- and its
\* threads_nb++.
CountedOut == {t \in Tx : pc[t] \in {"barrier_wait", "barrier_wake", "barrier_action"}}

\* C33: thread accounting.  Whenever the quiescence mutex is free, in a
\* process that runs, threads_nb is the number of descriptors in the list
\* less the number of threads in the barrier.  stm_init_thread of a thread without a
\* descriptor adds the descriptor of that thread and no other, fresh, and
\* counts it; called by a thread that has one it changes nothing and
\* returns that descriptor.  stm_exit_thread removes the descriptor of the
\* caller and no other, counts it out, and is taken when the transaction of
\* the caller is not Active.
C33_ThreadAccounting ==
  /\ []((quiesce_mutex = 0 /\ \A t \in Tx : pc[t] # "terminated") =>
          threads_nb = Cardinality(Registered) - Cardinality(CountedOut))
  /\ [][\A t \in Tx :
          /\ InitThreadStep(t) =>
               /\ result'[t].val = t
               /\ IF t \in Registered
                  THEN UNCHANGED <<locks, mem, CLOCK, quiesce, threads_nb,
                                   quiesce_mutex, tx, pc, loc, budget>>
                  ELSE /\ Registered' = Registered \cup {t}
                       /\ threads_nb' = threads_nb + 1
                       /\ tx' = [tx EXCEPT ![t] = InitTx]
          /\ (t \notin Registered /\ t \in Registered') => InitThreadStep(t)
          /\ ExitsThread(t) =>
               /\ ~IS_ACTIVE(tx[t].status)
               /\ Registered' = Registered \ {t}
               /\ threads_nb' = threads_nb - 1
          /\ (t \in Registered /\ t \notin Registered' /\ pc'[t] # "terminated") =>
               ExitsThread(t)]_vars

\* A thread has registered, has left and has registered again, and has
\* called stm_init_thread once more, while the other thread, registered, is
\* waiting in the barrier: two descriptors, one thread counted.
C33_Witness ==
  \E t, u \in Tx :
    /\ pc[t] = "out" /\ result[t] = [call |-> "stm_init_thread", val |-> t]
    /\ budget[t].txs < LiveTx
    /\ pc[u] = "barrier_wait"
    /\ threads_nb = 1 /\ quiesce_mutex = 0

\* The largest value the version field of a lock word holds.
VersionFieldMax == LOCK_WORD_MAX \div Pow2(LOCK_BITS)

\* C34: bound of the clock.  With the NThreads threads of the program
\* (NThreads <= MAX_THREADS), the clock never exceeds VERSION_MAX +
\* NThreads; it is raised only by the step of a commit that takes its
\* timestamp, by 1; the timestamp taken is at most VERSION_MAX + NThreads,
\* fits the version field, and is what LOCK_GET_TIMESTAMP reads back from
\* the lock word LOCK_SET_TIMESTAMP makes of it; the lock word a commit
\* leaves when it releases a lock is free and holds that timestamp.
C34_ClockBound ==
  /\ [](CLOCK <= VERSION_MAX + NThreads /\ NThreads <= MAX_THREADS)
  /\ [][/\ CLOCK' > CLOCK =>
             /\ CLOCK' = CLOCK + 1
             /\ \E t \in Tx : TakesTimestamp(t) /\ loc'[t].t = CLOCK'
        /\ \A t \in Tx :
             /\ TakesTimestamp(t) =>
                  /\ loc'[t].t = CLOCK + 1
                  /\ loc'[t].t <= VERSION_MAX + NThreads
                  /\ loc'[t].t <= VersionFieldMax
                  /\ LOCK_GET_TIMESTAMP(LOCK_SET_TIMESTAMP(loc'[t].t)) = loc'[t].t
                  /\ LOCK_GET_OWNED(LOCK_SET_TIMESTAMP(loc'[t].t)) = 0
             /\ (pc[t] = "release" /\ StepOf(t)) =>
                  LET k == tx[t].w_set[loc[t].i].lock
                  IN  /\ LOCK_GET_OWNED(locks'[k]) = 0
                      /\ LOCK_GET_TIMESTAMP(locks'[k]) = loc[t].t
       ]_vars

\* The clock has gone past VERSION_MAX: a transaction begun below
\* VERSION_MAX has committed after the clock had reached it, and a lock
\* word, free, holds its timestamp.
C34_Witness ==
  /\ CLOCK > VERSION_MAX
  /\ \E k \in LockIdx :
       LOCK_GET_OWNED(locks[k]) = 0 /\ LOCK_GET_TIMESTAMP(locks[k]) = CLOCK

\* The lock words that point into the write set of thread t.
LocksOf(t) == {k \in LockIdx : PointsInto(t, locks[k])}

\* C35 as stated: only Active transactions hold locks.  Every lock word
\* that is owned points into the write set of a transaction whose status is
\* Active; a transaction that is Idle, Committed or Aborted owns no lock,
\* and no step makes a lock word point into its write set: neither does the
\* store that goes on after a rollback that has returned.
C35_OnlyActiveHoldLocks ==
  /\ [](\A k \in LockIdx :
          LOCK_GET_OWNED(locks[k]) = 1 =>
            \E t \in Tx : PointsInto(t, locks[k]) /\ IS_ACTIVE(tx[t].status))
  /\ [](\A t \in Tx : ~IS_ACTIVE(tx[t].status) => LocksOf(t) = {})
  /\ [][\A t \in Tx : ~IS_ACTIVE(tx[t].status) => LocksOf(t)' \subseteq LocksOf(t)]_vars

\* A store has returned to the application in a transaction that is
\* Aborted, rolled back for the growth of its write set without retry: no
\* lock is left from before the rollback, and the lock of the word stored
\* is owned and points to the entry the store has filled.
C35_AbortedHoldsLock ==
  \E t \in Tx :
    /\ pc[t] = "out" /\ tx[t].status = TX_ABORTED /\ tx[t].attr.no_retry
    /\ NbEntries(t) > RW_SET_SIZE
    /\ LET w == tx[t].w_set[NbEntries(t)]
       IN  /\ locks[w.lock] = LOCK_SET_ADDR_WRITE(EntryPtr(t, NbEntries(t)))
           /\ LocksOf(t) = {w.lock}

\* The entries of the write set of thread t that hold word a.
EntriesFor(t, a) == {i \in 1 .. NbEntries(t) : tx[t].w_set[i].addr = a}

\* The stores the applications issue.
StoreInputs ==
  UNION {StoreOps(t) \cup OverflowStores(t) \cup LeakStores(t) \cup {S3Store(t)} : t \in Tx}

\* Entry i of the write set of thread t after a store of the bits mask of
\* value, the word holding old if the entry had mask 0: the entries are the
\* same but for entry i, whose mask has the bits of mask added and whose
\* value, under that mask, is the merged one.
UpdatedInPlace(t, i, value, mask, old) ==
  LET e == tx[t].w_set[i]
      from == IF e.mask = 0 THEN old ELSE e.value
      merged == BitOr(BitAnd(from, BitNot(mask)), BitAnd(value, mask))
  IN  /\ Len(tx'[t].w_set) = Len(tx[t].w_set)
      /\ \A j \in 1 .. NbEntries(t) : j # i => tx'[t].w_set[j] = tx[t].w_set[j]
      /\ tx'[t].w_set[i].mask = BitOr(e.mask, mask)
      /\ Agree(tx'[t].w_set[i].value, merged, tx'[t].w_set[i].mask)
      /\ tx'[t].w_set[i].addr = e.addr /\ tx'[t].w_set[i].lock = e.lock
      /\ tx'[t].w_set[i].next = e.next /\ tx'[t].w_set[i].version = e.version

\* C36 as stated: one entry per word.  The write set of a transaction holds
\* at most one entry for a word.  A store to a word that the write set
\* holds changes that entry in place and nothing else of the write set: the
\* mask of the entry has the bits of the store added, and its value is,
\* under that mask, (value of the entry & ~mask) | (value & mask), the value
\* of the entry being taken from the word first if the mask of the entry
\* was 0; the number of entries and every lock word are left as they were.
C36_OneEntryPerWord ==
  /\ [](\A t \in Tx : \A a \in Addr : Cardinality(EntriesFor(t, a)) <= 1)
  /\ [][\A t \in Tx :
          /\ \A s \in StoreInputs :
               (int_stm_store(t, s) /\ EntriesFor(t, s.addr) # {}) =>
                 /\ UNCHANGED locks
                 /\ Len(tx'[t].w_set) = Len(tx[t].w_set)
                 /\ \/ pc'[t] = "write_merge" /\ tx'[t] = tx[t]
                    \/ /\ pc'[t] = "body"
                       /\ \E i \in EntriesFor(t, s.addr) :
                            UpdatedInPlace(t, i, s.value, s.mask, mem[s.addr])
          /\ (pc[t] = "write_merge" /\ StepOf(t)) =>
               /\ UNCHANGED locks
               /\ pc'[t] = "body"
               /\ \E i \in EntriesFor(t, loc[t].addr) :
                    UpdatedInPlace(t, i, loc[t].value, loc[t].mask, mem[loc[t].addr])
       ]_vars

\* Thread t, Active, stores to a word that its write set holds, and the
\* store is not done in place: it has found the lock word of the word free,
\* another transaction having set it free, has taken the store for the
\* first one to that lock and, the write set being full, is rolling the
\* transaction back to grow it.
C36_RepeatedStoreRollsBack ==
  \E t \in Tx :
    /\ IS_ACTIVE(tx[t].status)
    /\ pc[t] = "rollback" /\ loc[t].reason = {"EXTEND_WS"} /\ loc[t].ret = "write_free"
    /\ EntriesFor(t, loc[t].addr) # {}

\* Lock word l is free.
IsFree(l) == LOCK_GET_OWNED(l) = 0

\* Thread t releases, in this step of its rollback, the lock of the entry it
\* is at.
RollbackReleases(t) ==
  /\ pc[t] = "rollback" /\ StepOf(t)
  /\ loc[t].i <= NbEntries(t)
  /\ locks' # locks

\* C37 as stated: the versions of the lock words trail the clock.  The
\* version of a free lock word is at most the clock.  But for the
\* roll-over, the version of a lock word does not decrease: a step that
\* leaves a lock word free that was free leaves a version at least as large;
\* a rollback sets the lock word it releases to the version the entry has
\* kept from the acquisition; a commit sets the lock word it releases to its
\* timestamp, larger than that version.
C37_VersionsTrailClock ==
  /\ [](\A k \in LockIdx : IsFree(locks[k]) => LOCK_GET_TIMESTAMP(locks[k]) <= CLOCK)
  /\ [][(\A t \in Tx : ~RunsAction(t)) =>
          \A k \in LockIdx :
            /\ (IsFree(locks[k]) /\ IsFree(locks'[k])) =>
                 LOCK_GET_TIMESTAMP(locks'[k]) >= LOCK_GET_TIMESTAMP(locks[k])
            /\ \A t \in Tx :
                 /\ (RollbackReleases(t) /\ locks'[k] # locks[k]) =>
                      /\ tx[t].w_set[loc[t].i].lock = k
                      /\ locks'[k] = LOCK_SET_TIMESTAMP(tx[t].w_set[loc[t].i].version)
                 /\ (pc[t] = "release" /\ StepOf(t) /\ locks'[k] # locks[k]) =>
                      /\ tx[t].w_set[loc[t].i].lock = k
                      /\ locks'[k] = LOCK_SET_TIMESTAMP(loc[t].t)
                      /\ loc[t].t > tx[t].w_set[loc[t].i].version
       ]_vars

\* A lock word is free at a version below the timestamp of a commit that
\* has stored to a word of that lock and has returned: the version has gone
\* back without a roll-over.
C37_VersionWentBack ==
  \E k \in LockIdx, u \in Tx :
    /\ IsFree(locks[k])
    /\ Finished(u) /\ done[u].kind = "upd" /\ tx[u].status = TX_COMMITTED
    /\ done[u].ts <= CLOCK
    /\ \E a \in Addr : GET_LOCK(a) = k /\ hist[done[u].ts][a].m # 0
    /\ LOCK_GET_TIMESTAMP(locks[k]) < done[u].ts

\* The blocking stm_quiesce of q has returned 0 and q has not yet called
\* stm_quiesce_release.
QuiescedBy(q) == quiesce = 2 /\ quiesce_mutex = q /\ pc[q] # "quiesce_scan"

\* A step of t that is part of a load, a store or a commit.
AccessStep(t) ==
  /\ StepOf(t)
  /\ pc[t] \in {"body", "write_lock", "write_cas", "do_write", "commit",
                "validate", "publish", "release"}
  /\ result'[t].call \notin {"stm_quiesce", "stm_quiesce_release"} \/ result'[t] = result[t]
  /\ pc'[t] # "quiesce_scan"

\* C38 as stated: between the return of 0 from a blocking stm_quiesce and
\* stm_quiesce_release, no other registered thread performs a transactional
\* access.
C38_NoAccessWhileQuiesced ==
  [][\A q \in Tx : \A u \in Tx \ {q} : QuiescedBy(q) => ~AccessStep(u)]_vars

\* A thread is Active inside its transaction while another thread's blocking
\* stm_quiesce has returned 0 and the flag is still 2.
C38_ActiveWhileQuiesced ==
  \E q \in Tx : \E u \in Tx \ {q} :
    /\ QuiescedBy(q)
    /\ pc[q] = "out"
    /\ pc[u] = "write_cas"
    /\ IS_ACTIVE(tx[u].status)

\* The step of t in which stm_rollback's int_stm_prepare is over and the
\* retry continuation is resumed.
ResumesRetry(t) ==
  /\ StepOf(t)
  /\ pc[t] \in {"prepare", "check_quiesce", "quiesce_restore"}
  /\ pc'[t] = "body"
  /\ loc[t].ret # "none"

\* The steps of t from stm_rollback's read of the clock to the resumption.
PreparesRetry(t) ==
  /\ StepOf(t)
  /\ pc[t] \in {"prepare", "check_quiesce", "quiesce_spin", "quiesce_restore"}
  /\ loc[t].ret # "none"

\* C39: the state in which a rollback resumes the retry continuation.  The
\* rollback retries exactly when attr.no_retry is clear and the reason has no
\* NO_RETRY.  The continuation receives the reason bits of the rollback, with
\* EXPLICIT among them when the rollback came from stm_abort; at that moment
\* no lock word points into the write set of the transaction, its status is
\* Active, nesting is 1, read set and write set are empty and start = end;
\* that value is the clock as read after the locks were released, where
\* int_stm_prepare sets the status Active, and is kept up to the resumption.
C39_RetryState ==
  [][\A t \in Tx :
       /\ (pc[t] = "rollback" /\ pc'[t] = "prepare") <=>
            (/\ pc[t] = "rollback" /\ StepOf(t) /\ pc'[t] # "rollback"
             /\ ~tx[t].attr.no_retry /\ "NO_RETRY" \notin loc[t].reason)
       /\ ResumesRetry(t) =>
            /\ result'[t].call = "sigsetjmp"
            /\ loc[t].reason \subseteq result'[t].val
            /\ loc[t].ret = "abort" => "EXPLICIT" \in result'[t].val
            /\ LocksOf(t)' = {}
            /\ tx'[t].status = TX_ACTIVE
            /\ tx'[t].nesting = 1
            /\ tx'[t].r_set = <<>> /\ tx'[t].w_set = <<>>
            /\ tx'[t].start = tx'[t].end
       /\ PreparesRetry(t) =>
            /\ LocksOf(t) = {}
            /\ IF pc[t] = "prepare"
               THEN tx'[t].start = CLOCK /\ tx'[t].end = CLOCK
               ELSE tx'[t].start = tx[t].start /\ tx'[t].end = tx[t].end]_vars

\* An explicit abort has been retried: the continuation holds its reason, the
\* transaction is Active again with empty sets.
C39_Witness ==
  \E t \in Tx :
    /\ pc[t] = "body"
    /\ result[t].call = "sigsetjmp"
    /\ "EXPLICIT" \in result[t].val
    /\ tx[t].status = TX_ACTIVE /\ tx[t].nesting = 1
    /\ tx[t].r_set = <<>> /\ tx[t].w_set = <<>>
    /\ tx[t].start = CLOCK /\ CLOCK > 0

====
